---- MODULE Spec2Model ----
(***************************************************************************)
(* Retrieval core of YourRAG: the token-bucket rate limiter                *)
(* (redis_service.py, rate_limiter.py) and the vector similarity search    *)
(* over per-user, per-group documents (document_store.py, routes).         *)
(*                                                                         *)
(* Numbers.  Time is in whole seconds.  Token counts are fixed-point with  *)
(* denominator TokenUnit: a stored value v stands for v / TokenUnit        *)
(* tokens, and a rate of x stands for x / TokenUnit tokens per second, so  *)
(* the arithmetic of the Lua script is exact.                              *)
(***************************************************************************)
EXTENDS Integers, Sequences, FiniteSets, TLC

\* ---------------------------------------------------------------- bounds
MaxAdvances == 1        \* number of times the clock moves
MaxRequests == 2        \* requests that enter the rate_limit wrapper
MaxCalls    == 5        \* acquire_token calls on the single key of SpecBucket
MaxDocs     == 3        \* rows of "Document"
MaxStored   == 2        \* documents ever inserted by the write handlers
MaxGroups   == 2        \* groups ever created
MaxProcs    == 2        \* concurrent credits / redemption calls
MaxLen      == 3        \* characters of a header value
MaxCallers  == 2        \* concurrent find_or_create_group calls
MaxNodes    == 2        \* application instances on the one Redis
MaxTicks    == 3        \* number of times the heartbeat clock moves
TokenUnit   == 7200     \* fixed-point denominator of token counts

\* ------------------------------------------------------ program constants
EXPIRE_SECONDS == 3600  \* redis.call("EXPIRE", key, 3600)
TOKENS_DEFAULT == 1     \* acquire_token(..., tokens: int = 1)
MAX_RETRIES    == 3     \* get_embeddings(..., max_retries: int = 3)
NAME_SAFETY_LIMIT == 1000  \* if counter > 1000: raise ValueError
DEFAULT_TOP_K  == 5     \* input_data.top_k or current_user.topK or 5

None == "None"

Min(a, b) == IF a <= b THEN a ELSE b
Max(a, b) == IF a >= b THEN a ELSE b

\* ------------------------------------------------------------ rate limiter
Slots   == {1, 2}              \* requests in flight at the same time
Clients == {"ip1", "ip2"}

\* key=f"global_limit:{key_prefix}" and key=f"{key_prefix}:{client_ip}"
GlobalKey      == "global_limit"
ClientKey(ip)  == ip
Keys           == {GlobalKey} \cup {ClientKey(ip) : ip \in Clients}

\* config.py: capacities are ints (<= 0 disables the layer), rates are floats.
\* Rates are drawn as 1/TokenUnit token per second (slow) and 1 token per
\* second (the default RATE_LIMIT_RATE).
CapacitySet == {0 - 1, 0, 1, 2}
RateSet     == {1, TokenUnit}
Configs     == [gcap : CapacitySet, grate : RateSet, ucap : CapacitySet, urate : RateSet]

\* config.py defaults: both layers off, 1 and 100 tokens per second
DefaultConfig == [gcap |-> 0, grate |-> 100 * TokenUnit, ucap |-> 0, urate |-> TokenUnit]

\* the wrapper is explored with both layers at 1 token per second and each
\* layer disabled (capacity negative or 0) or holding one token
LimiterConfigs ==
  {c \in Configs : /\ c.grate = TokenUnit /\ c.urate = TokenUnit
                   /\ c.gcap <= 1 /\ c.ucap <= 1}

\* every handler decorated with @rate_limit declares `request: Request`
HandlerHasRequest == {TRUE}

\* delays by which the clock moves between steps
Delays == {1, TokenUnit}

VARIABLES
  clock,      \* time.time() and the store's clock, seconds
  advances,   \* how often the clock has moved
  cfg,        \* config.GLOBAL_RATE_LIMIT_* and config.RATE_LIMIT_*
  booted,     \* the lifespan startup has run
  instance,   \* RedisService._instance is not None
  bucket,     \* per key: the Redis hash rate_limit:<key>
  pc,         \* per slot: position of the request in the wrapper
  req,        \* per slot: the request being served
  served,     \* number of requests that entered the wrapper
  log,        \* per key: the script executions, in the order Redis ran them
  docs,       \* rows of table "Document"
  groups,     \* rows of table "DocumentGroup"
  nextDocId,  \* serial of "Document".id
  nextGroupId,\* serial of "DocumentGroup".id
  srch,       \* the DocumentStore.search call in progress, or the last one
  ret,        \* the last write to the store: who called what and what it returned
  foc,        \* per caller: the find_or_create_group call in progress
  ident,      \* the request whose client identity the wrapper resolves
  credits,    \* per user: "User".credits
  opening,    \* per user: the credits before any call
  txs,        \* rows of table "Transaction"
  codes,      \* rows of table "RedemptionCode", by id
  job,        \* per process: the credits or redemption call it runs
  active_instances, \* the sorted set "active_instances": members with scores
  node        \* per instance: its heartbeat task and its last listing

rlvars == <<clock, advances, cfg, booted, instance, bucket, pc, req, served, log>>

stvars == <<docs, groups, nextDocId, nextGroupId, srch, ret, foc>>

\* state of the parts that are explored on their own
hbvars == <<active_instances, node>>

exvars == <<ident, credits, opening, txs, codes, job, active_instances, node>>

vars == <<clock, advances, cfg, booted, instance, bucket, pc, req, served, log,
          docs, groups, nextDocId, nextGroupId, srch, ret, foc, ident,
          credits, opening, txs, codes, job, active_instances, node>>

\* ---- client identity (rate_limit.wrapper, lines 46-61)
\* Header values and keys are sequences of characters.
Chars   == {"1", ",", " "}
Strings == UNION {[1..n -> Chars] : n \in 0..MaxLen}

\* request.headers.get(name): None when the header is absent
NoHeader     == [present |-> FALSE, value |-> << >>]
Header(v)    == [present |-> TRUE, value |-> v]
HeaderValues == {NoHeader} \cup {Header(v) : v \in Strings}

\* request.client: None, or an address with a host
NoClient   == [present |-> FALSE, host |-> << >>]
PeerHost   == <<"h">>
ClientSet  == {NoClient, [present |-> TRUE, host |-> PeerHost]}

KEY_PREFIX == <<"p">>
Unknown    == <<"u", "n", "k", "n", "o", "w", "n">>

\* forwarded.split(",")[0]
FirstField(v) ==
  LET commas == {i \in 1..Len(v) : v[i] = ","}
  IN  IF commas = {} THEN v
      ELSE SubSeq(v, 1, (CHOOSE i \in commas : \A j \in commas : i <= j) - 1)

\* str.strip()
Strip(v) ==
  LET solid == {i \in 1..Len(v) : v[i] # " "}
  IN  IF solid = {} THEN << >>
      ELSE SubSeq(v, CHOOSE i \in solid : \A j \in solid : i <= j,
                     CHOOSE i \in solid : \A j \in solid : i >= j)

\* `if not client_ip` / `if forwarded`: None and "" are falsy
Truthy(h) == h.present /\ h.value # << >>

\* X-Forwarded-For is looked at before CF-Connecting-IP
ClientIp_ForwardedFirst(cf, xff, client) ==
  LET first == IF Truthy(xff) THEN Strip(FirstField(xff.value))
               ELSE IF Truthy(cf) THEN cf.value ELSE << >>
  IN  IF first # << >> THEN first
      ELSE IF client.present THEN client.host ELSE Unknown

\* lines 49-58: client_ip
ClientIp(cf, xff, client) ==
  LET first == IF Truthy(cf) THEN cf.value
               ELSE IF Truthy(xff) THEN Strip(FirstField(xff.value))
               ELSE << >>
  IN  IF first # << >> THEN first
      ELSE IF client.present THEN client.host ELSE Unknown

\* key = f"{key_prefix}:{client_ip}"
UserKey(key_prefix, client_ip) == key_prefix \o <<":">> \o client_ip

IdleIdent == [pc |-> "start", cf |-> NoHeader, xff |-> NoHeader, client |-> NoClient,
              key |-> << >>]

\* ---- credits and redemption codes (credits_service.py, redemption_service.py)
Procs       == 1..MaxProcs
LedgerUsers == {1, 2}
BalanceSet  == {0, 5}
AmountSet   == {5, 0 - 5}
CodeIds     == {1}

ACTIVE  == "ACTIVE"
USED    == "USED"
EXPIRED == "EXPIRED"

\* a code as create_redemption_codes inserts it, with or without expiry
NewCode(amount, expires_at) ==
  [status |-> ACTIVE, amount |-> amount, expiresAt |-> expires_at, usedBy |-> 0 - 1]
CodeRows == {NewCode(5, e) : e \in {0 - 1, 1}}

IdleJob == [pc |-> "idle", op |-> "none", user |-> 0, amount |-> 0, before |-> 0,
            code |-> 0, err |-> "none"]

LedgerIdle ==
  /\ credits = [u \in LedgerUsers |-> 0]
  /\ opening = credits
  /\ txs = {}
  /\ codes = [c \in CodeIds |-> NewCode(5, 0 - 1)]
  /\ job = [p \in Procs |-> IdleJob]

\* ---- instance heartbeat (redis_service.py)
Nodes == 1..MaxNodes

HEARTBEAT_SLEEP == 5
STALE_SECONDS   == 15

\* _hostname = socket.gethostname(): the instances run on one host
Hostname == <<"h">>

\* _instance_id = str(uuid.uuid4()): a text of its own for each instance
InstanceId(n) == [i \in 1..n |-> "u"]

IdleNode == [pc |-> "down", beats |-> 0, wake |-> 0, listed |-> {}]

HbIdle ==
  /\ active_instances = {}
  /\ node = [n \in Nodes |-> IdleNode]

ExInit == ident = IdleIdent /\ LedgerIdle /\ HbIdle

\* a request with any headers reaches the per-client layer
IdentInit ==
  \E cf \in HeaderValues, xff \in HeaderValues, client \in ClientSet :
    ident = [pc |-> "start", cf |-> cf, xff |-> xff, client |-> client, key |-> << >>]

\* ---- the Lua script (RedisService._token_bucket_script)

\* HMGET key tokens last_refill: a key whose EXPIRE has run out reads as absent
NoBucket == [exists |-> FALSE, tokens |-> 0, last_refill |-> 0, expire_at |-> 0]

\* the key is gone as soon as any time has passed since its last write
HMGET_Eager(b, srvnow) ==
  IF ~b.exists \/ srvnow > b.expire_at - EXPIRE_SECONDS THEN NoBucket ELSE b

HMGET(b, srvnow) == IF ~b.exists \/ srvnow > b.expire_at THEN NoBucket ELSE b

\* the refill without math.min(capacity, ...)
Refill_NoCap(tokens, last_refill, now, capacity, rate) ==
  tokens + Max(0, now - last_refill) * rate

\* local delta = math.max(0, now - last_refill);
\* tokens = math.min(capacity, tokens + delta * rate)
Refill(tokens, last_refill, now, capacity, rate) ==
  Min(capacity, tokens + Max(0, now - last_refill) * rate)

\* a strict comparison in place of >=
Enough_Strict(tokens, requested) == tokens > requested

\* if tokens >= requested then
Enough(tokens, requested) == tokens >= requested

\* the spent tokens are not written back
Spend_Lost(tokens, requested) == tokens

\* tokens = tokens - requested
Spend(tokens, requested) == tokens - requested

\* One atomic execution of the script at store time srvnow with ARGV
\* capacity, rate, now, requested (capacity and requested in fixed point).
TokenBucketScript(b, capacity, rate, now, requested, srvnow) ==
  LET cur     == HMGET(b, srvnow)
      tokens0 == IF ~cur.exists THEN capacity ELSE cur.tokens
      last0   == IF ~cur.exists THEN now ELSE cur.last_refill
      tokens1 == Refill(tokens0, last0, now, capacity, rate)
      allowed == Enough(tokens1, requested)
      tokens2 == IF allowed THEN Spend(tokens1, requested) ELSE tokens1
  IN  [bucket  |-> [exists |-> TRUE, tokens |-> tokens2, last_refill |-> now,
                    expire_at |-> srvnow + EXPIRE_SECONDS],
       allowed |-> allowed,
       seen    |-> tokens1]

\* ---- rate_limit.wrapper

NewRequest(ip, hasRequest) ==
  [ip |-> ip, hasRequest |-> hasRequest, now |-> 0,
   gRes |-> None, uRes |-> None, gRan |-> FALSE, uRan |-> FALSE,
   gErr |-> FALSE, uErr |-> FALSE, gSeen |-> 0]

IdleRequest == NewRequest("ip1", TRUE)

\* the "System Busy" rejection is missing
AfterGlobal_NoRaise(allowed) == "user"

\* if not allowed: raise HTTPException(429, "System Busy")
AfterGlobal(allowed) == IF allowed THEN "user" ELSE "rejected"

\* bool(result) as the wrapper's local `allowed`
Outcome(allowed) == IF allowed THEN "allowed" ELSE "denied"

\* the "Too Many Requests" rejection is missing
AfterUser_NoRaise(allowed) == "handler"

\* if not allowed: raise HTTPException(429, "Too Many Requests")
AfterUser(allowed) == IF allowed THEN "handler" ELSE "rejected"

\* the except branch answers False
FailOpen_OnlyUnconnected(connected) == ~connected

\* acquire_token without a reply from the store: "return True" both when
\* there is no client instance and in the except branch
FailOpen(connected) == TRUE

\* the per-client layer without "if config.RATE_LIMIT_CAPACITY <= 0"
UserLayer_AlwaysOn(r, c, inst, now) ==
  IF ~r.hasRequest THEN [pc |-> "handler", req |-> r]
  ELSE IF ~inst THEN [pc |-> AfterUser(FailOpen(FALSE)),
                      req |-> [r EXCEPT !.uRes = Outcome(FailOpen(FALSE))]]
  ELSE [pc |-> "u_eval", req |-> [r EXCEPT !.now = now]]

\* Lines 29-75: the per-client layer up to its await.  acquire_token returns
\* True at once when there is no client instance; otherwise it reads
\* time.time() and awaits the script.
UserLayer(r, c, inst, now) ==
  IF c.ucap <= 0 THEN [pc |-> "handler", req |-> r]
  ELSE IF ~r.hasRequest THEN [pc |-> "handler", req |-> r]
  ELSE IF ~inst THEN [pc |-> AfterUser(FailOpen(FALSE)),
                      req |-> [r EXCEPT !.uRes = Outcome(FailOpen(FALSE))]]
  ELSE [pc |-> "u_eval", req |-> [r EXCEPT !.now = now]]

\* Lines 16-27: the global layer up to its await.
GlobalLayer(r, c, inst, now) ==
  IF c.gcap > 0
  THEN IF ~inst
       THEN IF AfterGlobal(FailOpen(FALSE)) = "user"
            THEN UserLayer([r EXCEPT !.gRes = Outcome(FailOpen(FALSE))], c, inst, now)
            ELSE [pc |-> "rejected", req |-> [r EXCEPT !.gRes = Outcome(FailOpen(FALSE))]]
       ELSE [pc |-> "g_eval", req |-> [r EXCEPT !.now = now]]
  ELSE UserLayer(r, c, inst, now)

\* what the wrapper does once the global acquire has returned `allowed`
ContinueAfterGlobal(r, allowed, c, inst, now) ==
  LET r1 == [r EXCEPT !.gRes = Outcome(allowed)]
  IN  IF AfterGlobal(allowed) = "user"
      THEN UserLayer(r1, c, inst, now)
      ELSE [pc |-> "rejected", req |-> r1]

LogEntry(now, at, allowed) == [now |-> now, at |-> at, allowed |-> allowed]

RLInit ==
  /\ clock = 0
  /\ advances = 0
  /\ booted = FALSE
  /\ instance = FALSE
  /\ bucket = [k \in Keys |-> NoBucket]
  /\ pc = [s \in Slots |-> "idle"]
  /\ req = [s \in Slots |-> IdleRequest]
  /\ served = 0
  /\ log = [k \in Keys |-> << >>]

\* api.py lifespan: RedisService.connect() inside try/except.  The client
\* object is assigned before the ping, so _instance stays None only when
\* constructing the client itself raises.
Startup(ok) ==
  /\ ~booted
  /\ booted' = TRUE
  /\ instance' = ok
  /\ UNCHANGED <<clock, advances, cfg, bucket, pc, req, served, log>>
  /\ UNCHANGED stvars
  /\ UNCHANGED exvars

Advance(d) ==
  /\ advances < MaxAdvances
  /\ clock' = clock + d
  /\ advances' = advances + 1
  /\ UNCHANGED <<cfg, booted, instance, bucket, pc, req, served, log>>
  /\ UNCHANGED stvars
  /\ UNCHANGED exvars

\* a request reaches the decorated handler's wrapper on an instance whose
\* time.time() reads `now`; it takes the lowest free slot (slots are
\* interchangeable)
EnterAt(s, ip, hasRequest, max, now) ==
  /\ booted
  /\ pc[s] = "idle"
  /\ \A t \in Slots : t < s => pc[t] # "idle"
  /\ served < max
  /\ LET nxt == GlobalLayer(NewRequest(ip, hasRequest), cfg, instance, now)
     IN  /\ pc' = [pc EXCEPT ![s] = nxt.pc]
         /\ req' = [req EXCEPT ![s] = nxt.req]
  /\ served' = served + 1
  /\ UNCHANGED <<clock, advances, cfg, booted, instance, bucket, log>>
  /\ UNCHANGED stvars
  /\ UNCHANGED exvars

\* the instance's clock is the store's clock
EnterStep(s, ip, hasRequest, max) == EnterAt(s, ip, hasRequest, max, clock)

\* log' after one script execution on key k (kept only when `keep`)
Logged(k, keep, now, at, allowed) ==
  IF keep THEN [log EXCEPT ![k] = Append(@, LogEntry(now, at, allowed))] ELSE log

\* Redis runs the script of the global acquire and the reply arrives
GlobalEvalStep(s, keep) ==
  /\ pc[s] = "g_eval"
  /\ LET out == TokenBucketScript(bucket[GlobalKey], cfg.gcap * TokenUnit, cfg.grate,
                                  req[s].now, TOKENS_DEFAULT * TokenUnit, clock)
         nxt == ContinueAfterGlobal([req[s] EXCEPT !.gRan = TRUE, !.gSeen = out.seen],
                                    out.allowed,
                                    cfg, instance, clock)
     IN  /\ bucket' = [bucket EXCEPT ![GlobalKey] = out.bucket]
         /\ log' = Logged(GlobalKey, keep, req[s].now, clock, out.allowed)
         /\ pc' = [pc EXCEPT ![s] = nxt.pc]
         /\ req' = [req EXCEPT ![s] = nxt.req]
  /\ UNCHANGED <<clock, advances, cfg, booted, instance, served>>
  /\ UNCHANGED stvars
  /\ UNCHANGED exvars

\* the eval call raises (store unreachable, connection lost): except -> True.
\* `ran` tells whether Redis had run the script before the call failed.
GlobalEvalRaisesStep(s, ran, keep) ==
  /\ pc[s] = "g_eval"
  /\ LET out == TokenBucketScript(bucket[GlobalKey], cfg.gcap * TokenUnit, cfg.grate,
                                  req[s].now, TOKENS_DEFAULT * TokenUnit, clock)
         nxt == ContinueAfterGlobal([req[s] EXCEPT !.gRan = ran, !.gErr = TRUE,
                                                   !.gSeen = IF ran THEN out.seen ELSE 0],
                                    FailOpen(TRUE), cfg, instance, clock)
     IN  /\ bucket' = IF ran THEN [bucket EXCEPT ![GlobalKey] = out.bucket] ELSE bucket
         /\ log' = Logged(GlobalKey, keep /\ ran, req[s].now, clock, out.allowed)
         /\ pc' = [pc EXCEPT ![s] = nxt.pc]
         /\ req' = [req EXCEPT ![s] = nxt.req]
  /\ UNCHANGED <<clock, advances, cfg, booted, instance, served>>
  /\ UNCHANGED stvars
  /\ UNCHANGED exvars

\* Redis runs the script of the per-client acquire and the reply arrives
UserEvalStep(s, keep) ==
  /\ pc[s] = "u_eval"
  /\ LET k   == ClientKey(req[s].ip)
         out == TokenBucketScript(bucket[k], cfg.ucap * TokenUnit, cfg.urate,
                                  req[s].now, TOKENS_DEFAULT * TokenUnit, clock)
     IN  /\ bucket' = [bucket EXCEPT ![k] = out.bucket]
         /\ log' = Logged(k, keep, req[s].now, clock, out.allowed)
         /\ pc' = [pc EXCEPT ![s] = AfterUser(out.allowed)]
         /\ req' = [req EXCEPT ![s].uRes = Outcome(out.allowed), ![s].uRan = TRUE]
  /\ UNCHANGED <<clock, advances, cfg, booted, instance, served>>
  /\ UNCHANGED stvars
  /\ UNCHANGED exvars

UserEvalRaisesStep(s, ran, keep) ==
  /\ pc[s] = "u_eval"
  /\ LET k   == ClientKey(req[s].ip)
         out == TokenBucketScript(bucket[k], cfg.ucap * TokenUnit, cfg.urate,
                                  req[s].now, TOKENS_DEFAULT * TokenUnit, clock)
     IN  /\ bucket' = IF ran THEN [bucket EXCEPT ![k] = out.bucket] ELSE bucket
         /\ log' = Logged(k, keep /\ ran, req[s].now, clock, out.allowed)
         /\ pc' = [pc EXCEPT ![s] = AfterUser(FailOpen(TRUE))]
         /\ req' = [req EXCEPT ![s].uRes = Outcome(FailOpen(TRUE)), ![s].uRan = ran,
                               ![s].uErr = TRUE]
  /\ UNCHANGED <<clock, advances, cfg, booted, instance, served>>
  /\ UNCHANGED stvars
  /\ UNCHANGED exvars

\* the handler has run, or the 429 has been sent
Leave(s) ==
  /\ pc[s] \in {"handler", "rejected"}
  /\ pc' = [pc EXCEPT ![s] = "idle"]
  /\ req' = [req EXCEPT ![s] = IdleRequest]
  /\ UNCHANGED <<clock, advances, cfg, booted, instance, bucket, served, log>>
  /\ UNCHANGED stvars
  /\ UNCHANGED exvars

\* ---- the wrapper with both layers, any configuration, any client
Enter(s, ip, hasRequest) == EnterStep(s, ip, hasRequest, MaxRequests)
GlobalEval(s)            == GlobalEvalStep(s, FALSE)
GlobalEvalRaises(s, ran) == GlobalEvalRaisesStep(s, ran, FALSE)
UserEval(s)              == UserEvalStep(s, FALSE)
UserEvalRaises(s, ran)   == UserEvalRaisesStep(s, ran, FALSE)

RLNext ==
  \/ \E ok \in BOOLEAN : Startup(ok)
  \/ \E d \in Delays : Advance(d)
  \/ \E s \in Slots, ip \in Clients, h \in HandlerHasRequest : Enter(s, ip, h)
  \/ \E s \in Slots : GlobalEval(s)
  \/ \E s \in Slots, ran \in BOOLEAN : GlobalEvalRaises(s, ran)
  \/ \E s \in Slots : UserEval(s)
  \/ \E s \in Slots, ran \in BOOLEAN : UserEvalRaises(s, ran)
  \/ \E s \in Slots : Leave(s)


\* ---- acquire_token on one key: the per-client bucket of one client with
\* the global layer off, every script execution kept in log
BucketKey == ClientKey("ip1")

Acquire(s)               == EnterStep(s, "ip1", TRUE, MaxCalls)
AcquireEval(s)           == UserEvalStep(s, TRUE)
AcquireEvalRaises(s, ran) == UserEvalRaisesStep(s, ran, TRUE)

BucketNext ==
  \/ \E ok \in BOOLEAN : Startup(ok)
  \/ \E d \in Delays : Advance(d)
  \/ \E s \in Slots : Acquire(s)
  \/ \E s \in Slots : AcquireEval(s)
  \/ \E s \in Slots, ran \in BOOLEAN : AcquireEvalRaises(s, ran)
  \/ \E s \in Slots : Leave(s)


\* ---------------------------------------------------------- document store
\* Vectors are integer vectors of norm 5, distances are in 25ths: a stored
\* distance v stands for the cosine distance v / 25.
Users == {1, 2}
Texts == {"cat", "dog"}
NULL  == 0 - 1                 \* Python None / SQL NULL where an id is expected

\* the embedding the gateway computes for a text
EmbedVec(text) == IF text = "cat" THEN <<5, 0>> ELSE <<3, 4>>

\* a vector that is the embedding of no text (carried by import data)
ForeignVec == <<0, 5>>

\* embedding <=> $1::vector (pgvector cosine distance), for vectors of norm 5
CosineDistance(a, b) == 25 - (a[1] * b[1] + a[2] * b[2])

\* What the embedding API answers on successive attempts: a vector, an empty
\* data list, a failure (HTTP error other than 503, timeout, bad JSON), or 503.
GatewayRuns == {<<"ok">>, <<"empty">>, <<"error">>, <<"busy", "ok">>,
                <<"busy", "busy", "busy">>}

Answer(run, attempt) == IF attempt + 1 <= Len(run) THEN run[attempt + 1] ELSE run[Len(run)]

\* EmbeddingService.get_embeddings([text]): for attempt in range(max_retries)
RECURSIVE GetEmbeddings(_, _, _)
GetEmbeddings(text, run, attempt) ==
  IF attempt >= MAX_RETRIES THEN [status |-> "empty", vec |-> << >>]
  ELSE LET a == Answer(run, attempt)
       IN  IF a = "ok" THEN [status |-> "ok", vec |-> EmbedVec(text)]
           ELSE IF a = "empty" THEN [status |-> "empty", vec |-> << >>]
           ELSE IF a = "busy" /\ attempt < MAX_RETRIES - 1
                THEN GetEmbeddings(text, run, attempt + 1)
           ELSE [status |-> "raise", vec |-> << >>]

\* EmbeddingService.get_embedding(text): embeddings[0], or [] when there are none
GetEmbedding(text, run) == GetEmbeddings(text, run, 0)

\* ---- DocumentStore.search

\* the page query without its "userId" = $2 condition
PageWhere_AnyUser(d, user_id, group_id, qvec, threshold) ==
  IF group_id # NULL
  THEN /\ d.groupId = group_id
       /\ CosineDistance(d.embedding, qvec) <= threshold
  ELSE CosineDistance(d.embedding, qvec) <= threshold

\* the page query without its "groupId" = $3 condition
PageWhere_AnyGroup(d, user_id, group_id, qvec, threshold) ==
  /\ d.userId = user_id
  /\ CosineDistance(d.embedding, qvec) <= threshold

\* WHERE clause of the page query (both branches)
PageWhere(d, user_id, group_id, qvec, threshold) ==
  IF group_id # NULL
  THEN /\ d.userId = user_id
       /\ d.groupId = group_id
       /\ CosineDistance(d.embedding, qvec) <= threshold
  ELSE /\ d.userId = user_id
       /\ CosineDistance(d.embedding, qvec) <= threshold

\* the count query with < in place of <=
CountWhere_Strict(d, user_id, group_id, qvec, threshold) ==
  IF group_id # NULL
  THEN /\ d.userId = user_id
       /\ d.groupId = group_id
       /\ CosineDistance(d.embedding, qvec) < threshold
  ELSE /\ d.userId = user_id
       /\ CosineDistance(d.embedding, qvec) < threshold

\* WHERE clause of the count query (both branches)
CountWhere(d, user_id, group_id, qvec, threshold) ==
  IF group_id # NULL
  THEN /\ d.userId = user_id
       /\ d.groupId = group_id
       /\ CosineDistance(d.embedding, qvec) <= threshold
  ELSE /\ d.userId = user_id
       /\ CosineDistance(d.embedding, qvec) <= threshold

\* a selected row: SELECT id, content, (embedding <=> $1::vector) as distance
Row(d, qvec) ==
  [id |-> d.id, content |-> d.content, distance |-> CosineDistance(d.embedding, qvec)]

\* ORDER BY distance ASC: every order of the rows with ascending distance;
\* the order of rows with equal distance is the store's choice
RankedOrders(rows) ==
  LET n == Cardinality(rows)
  IN  {s \in [1..n -> rows] :
         /\ \A i, j \in 1..n : i # j => s[i] # s[j]
         /\ \A i, j \in 1..n : i < j => s[i].distance <= s[j].distance}

\* LIMIT $limit OFFSET $offset
LimitOffset(s, limit, offset) ==
  IF offset >= Len(s) THEN << >>
  ELSE SubSeq(s, offset + 1, Min(Len(s), offset + limit))

\* the results the page query may return
PageResults(table, user_id, group_id, qvec, threshold, limit, offset) ==
  LET rows == {Row(d, qvec) : d \in {x \in table : PageWhere(x, user_id, group_id, qvec, threshold)}}
  IN  {LimitOffset(s, limit, offset) : s \in RankedOrders(rows)}

\* SELECT COUNT(*)
CountResult(table, user_id, group_id, qvec, threshold) ==
  Cardinality({d \in table : CountWhere(d, user_id, group_id, qvec, threshold)})

Ids(rows) == [i \in 1..Len(rows) |-> rows[i].id]

IdleSearch ==
  [pc |-> "idle", user |-> 1, query |-> "cat", threshold |-> 0, limit |-> 1,
   offset |-> 0, gid |-> NULL, embed |-> "none", qvec |-> << >>, rows |-> << >>,
   total |-> 0, queries |-> 0, raised |-> FALSE, scanning |-> FALSE, acc |-> << >>]

\* the call continues a page-by-page scan: same arguments as the call that
\* just returned, offset moved on by limit
Continues(last, u, q, threshold, limit, offset, gid) ==
  /\ last.pc = "done" /\ last.scanning /\ last.embed = "ok" /\ ~last.raised
  /\ last.user = u /\ last.query = q /\ last.threshold = threshold
  /\ last.limit = limit /\ last.gid = gid
  /\ offset = last.offset + last.limit

\* search(): lines 86-90, up to the first query
SearchStart(last, u, q, threshold, limit, offset, gid, run) ==
  LET e    == GetEmbedding(q, run)
      cont == Continues(last, u, q, threshold, limit, offset, gid)
      call == [IdleSearch EXCEPT !.user = u, !.query = q, !.threshold = threshold,
                                 !.limit = limit, !.offset = offset, !.gid = gid,
                                 !.embed = e.status,
                                 !.scanning = (cont \/ offset = 0),
                                 !.acc = IF cont THEN last.acc \o Ids(last.rows) ELSE << >>]
  IN  IF e.status = "raise" THEN [call EXCEPT !.pc = "done", !.raised = TRUE]
      ELSE IF e.status # "ok" THEN [call EXCEPT !.pc = "done"]
      ELSE [call EXCEPT !.pc = "page", !.qvec = e.vec]

\* what a write returned: result is "ok", "none" (None / False) or "raised";
\* count is the number of rows it reports; http is the route's status code
\* (0 when the store method is called directly); conflict tells that the
\* call asked for a group name another group of the caller holds; cascade is
\* delete_group's delete_documents argument
Call(op, u, result, count, http) ==
  [op |-> op, user |-> u, result |-> result, count |-> count, http |-> http,
   foreign |-> FALSE, conflict |-> FALSE, cascade |-> FALSE]

\* the same, for a call whose arguments name objects: foreign tells whether
\* every object they name belongs to a user other than the caller
CallOn(op, u, result, count, http, foreign) ==
  [Call(op, u, result, count, http) EXCEPT !.foreign = foreign]

\* the documents / the group named by the arguments belong to others
ForeignDocs(table, u, doc_ids) ==
  LET named == {d \in table : d.id \in doc_ids}
  IN  named # {} /\ \A d \in named : d.userId # u

ForeignGroup(grps, u, group_id) == \E g \in grps : g.id = group_id /\ g.userId # u

NoCall == Call("none", 0, "none", 0, 0)

\* callers of find_or_create_group that may run at the same time
Callers == 1..MaxCallers

IdleCaller == [pc |-> "idle", user |-> 1, name |-> "", id |-> NULL, raised |-> FALSE]

StoreInit ==
  /\ docs = {}
  /\ groups = {}
  /\ nextDocId = 1
  /\ nextGroupId = 1
  /\ srch = IdleSearch
  /\ ret = NoCall
  /\ foc = [p \in Callers |-> IdleCaller]

\* store.search(...) called with these arguments
Search(u, q, threshold, limit, offset, gid, run) ==
  /\ srch' = SearchStart(srch, u, q, threshold, limit, offset, gid, run)
  /\ UNCHANGED <<docs, groups, nextDocId, nextGroupId, ret, foc>>
  /\ UNCHANGED rlvars
  /\ UNCHANGED exvars

\* routes/documents.py search_documents: group resolution (877-887)
ResolveGroup(u, group_id, group_name) ==
  IF group_name # "" /\ (group_id = NULL \/ group_id = 0)
  THEN LET found == {g \in groups : g.userId = u /\ g.name = group_name}
       IN  IF found # {} THEN [ok |-> TRUE, gid |-> (CHOOSE g \in found : TRUE).id]
           ELSE [ok |-> FALSE, gid |-> NULL]
  ELSE [ok |-> TRUE, gid |-> group_id]

\* distance_threshold = 1.0 - user_similarity
DistanceThreshold(similarity) == 25 - similarity

\* GET /search: page, page_size validated by Query(ge=1)
SearchRoute(u, q, similarity, page, page_size, group_id, group_name, run) ==
  /\ LET r == ResolveGroup(u, group_id, group_name)
     IN  srch' = IF r.ok
                 THEN SearchStart(srch, u, q, DistanceThreshold(similarity), page_size,
                                  (page - 1) * page_size, r.gid, run)
                 ELSE IdleSearch
  /\ UNCHANGED <<docs, groups, nextDocId, nextGroupId, ret, foc>>
  /\ UNCHANGED rlvars
  /\ UNCHANGED exvars

\* the page query (lines 98-113 / 127-141); the database refuses a negative
\* LIMIT or OFFSET and query_raw raises
SearchPage ==
  /\ srch.pc = "page"
  /\ IF srch.limit < 0 \/ srch.offset < 0
     THEN srch' = [srch EXCEPT !.pc = "done", !.raised = TRUE, !.queries = @ + 1]
     ELSE \E rows \in PageResults(docs, srch.user, srch.gid, srch.qvec, srch.threshold,
                                   srch.limit, srch.offset) :
            srch' = [srch EXCEPT !.pc = "count", !.rows = rows, !.queries = @ + 1]
  /\ UNCHANGED <<docs, groups, nextDocId, nextGroupId, ret, foc>>
  /\ UNCHANGED rlvars
  /\ UNCHANGED exvars

\* the count query and the return (lines 115-124 / 143-164)
SearchCount ==
  /\ srch.pc = "count"
  /\ srch' = [srch EXCEPT !.pc = "done", !.queries = @ + 1,
                          !.total = CountResult(docs, srch.user, srch.gid, srch.qvec,
                                                srch.threshold)]
  /\ UNCHANGED <<docs, groups, nextDocId, nextGroupId, ret, foc>>
  /\ UNCHANGED rlvars
  /\ UNCHANGED exvars

\* top_k = input_data.top_k or current_user.topK or 5 (None and 0 are both
\* falsy: an absent top_k is drawn as 0)
TopK(top_k, user_topK) ==
  IF top_k # 0 THEN top_k ELSE IF user_topK # 0 THEN user_topK ELSE DEFAULT_TOP_K

\* POST /rag
RagQuery(u, q, similarity, top_k, user_topK, run) ==
  /\ srch' = SearchStart(srch, u, q, DistanceThreshold(similarity), TopK(top_k, user_topK),
                         0, NULL, run)
  /\ UNCHANGED <<docs, groups, nextDocId, nextGroupId, ret, foc>>
  /\ UNCHANGED rlvars
  /\ UNCHANGED exvars

\* POST /v1/chat/completions: the text after the last "-" of the model name
\* selects a group of the user when one has that name
ChatCompletions(u, q, similarity, top_k, user_topK, group_name, run) ==
  /\ LET found == {g \in groups : g.userId = u /\ g.name = group_name}
         gid   == IF group_name # "" /\ found # {} THEN (CHOOSE g \in found : TRUE).id ELSE NULL
     IN  srch' = SearchStart(srch, u, q, DistanceThreshold(similarity), TopK(top_k, user_topK),
                            0, gid, run)
  /\ UNCHANGED <<docs, groups, nextDocId, nextGroupId, ret, foc>>
  /\ UNCHANGED rlvars
  /\ UNCHANGED exvars

\* the caller is done with the result of the last call
SearchForget ==
  /\ srch.pc = "done"
  /\ srch' = IdleSearch
  /\ UNCHANGED <<docs, groups, nextDocId, nextGroupId, ret, foc>>
  /\ UNCHANGED rlvars
  /\ UNCHANGED exvars

\* ---- writes to the store

\* the database as the handler in progress sees it
Db == [docs |-> docs, groups |-> groups, nextDocId |-> nextDocId, nextGroupId |-> nextGroupId]

GroupIds(grps) == {g.id : g \in grps}

\* INSERT INTO "Document" (...) RETURNING id. Document.groupId references
\* DocumentGroup (delete_group: "documents are preserved (groupId set to
\* null)"), so a group id of no group makes the statement fail.
InsertDocument(db, u, content, embedding, gid) ==
  IF gid # NULL /\ gid \notin GroupIds(db.groups)
  THEN [db |-> db, ok |-> FALSE]
  ELSE [db |-> [db EXCEPT !.docs = @ \cup {[id |-> db.nextDocId, userId |-> u, groupId |-> gid,
                                            content |-> content, embedding |-> embedding]},
                          !.nextDocId = @ + 1],
        ok |-> TRUE]

\* DocumentStore.add_document; "if group_id:" is false for None and for 0
AddDocument(db, u, content, group_id, run) ==
  LET e == GetEmbedding(content, run)
  IN  IF e.status # "ok" THEN [db |-> db, ok |-> FALSE]
      ELSE IF group_id # NULL /\ group_id # 0
           THEN InsertDocument(db, u, content, e.vec, group_id)
           ELSE InsertDocument(db, u, content, e.vec, NULL)

\* documentgroup.create: (userId, name) is unique
CreateGroupRow(db, u, name) ==
  IF \E g \in db.groups : g.userId = u /\ g.name = name
  THEN [db |-> db, id |-> NULL, ok |-> FALSE]
  ELSE [db |-> [db EXCEPT !.groups = @ \cup {[id |-> db.nextGroupId, userId |-> u, name |-> name]},
                          !.nextGroupId = @ + 1],
        id |-> db.nextGroupId, ok |-> TRUE]

\* DocumentStore.find_or_create_group
FindOrCreateGroup(db, u, name) ==
  LET existing == {g \in db.groups : g.userId = u /\ g.name = name}
  IN  IF existing # {} THEN [db |-> db, id |-> (CHOOSE g \in existing : TRUE).id, ok |-> TRUE]
      ELSE CreateGroupRow(db, u, name)

\* the handler's writes reach the database; the tables stay within the bounds
Commit(db, call) ==
  /\ db.nextDocId <= MaxStored + 1
  /\ db.nextGroupId <= MaxGroups + 1
  /\ docs' = db.docs
  /\ groups' = db.groups
  /\ nextDocId' = db.nextDocId
  /\ nextGroupId' = db.nextGroupId
  /\ ret' = call
  /\ UNCHANGED <<srch, foc>>
  /\ UNCHANGED rlvars
  /\ UNCHANGED exvars

\* POST /documents: groupId and groupName come from the request's metadata
AddDocumentRoute(u, content, group_id, group_name, run) ==
  LET resolved == IF group_name # "" /\ (group_id = NULL \/ group_id = 0)
                  THEN FindOrCreateGroup(Db, u, group_name)
                  ELSE [db |-> Db, id |-> group_id, ok |-> TRUE]
      added    == IF resolved.ok
                  THEN AddDocument(resolved.db, u, content, resolved.id, run)
                  ELSE [db |-> resolved.db, ok |-> FALSE]
  IN  Commit(added.db, IF added.ok THEN Call("add_document", u, "ok", 1, 200)
                       ELSE Call("add_document", u, "raised", 0, 500))

\* POST /documents/upload: group_id and group_name are form fields
UploadDocument(u, content, group_id, group_name, run) ==
  LET resolved == IF group_id # NULL THEN [db |-> Db, id |-> group_id, ok |-> TRUE]
                  ELSE IF group_name # "" THEN FindOrCreateGroup(Db, u, group_name)
                  ELSE [db |-> Db, id |-> NULL, ok |-> TRUE]
      added    == IF resolved.ok
                  THEN AddDocument(resolved.db, u, content, resolved.id, run)
                  ELSE [db |-> resolved.db, ok |-> FALSE]
  IN  Commit(added.db, IF added.ok THEN Call("upload_document", u, "ok", 1, 200)
                       ELSE Call("upload_document", u, "raised", 0, 500))

\* DocumentStore.create_group (POST /groups)
CreateGroup(u, name) ==
  LET created == CreateGroupRow(Db, u, name)
  IN  Commit(created.db, IF created.ok THEN Call("create_group", u, "ok", 0, 200)
                         ELSE Call("create_group", u, "raised", 0, 400))

\* DocumentStore.assign_documents_to_group
AssignDocumentsToGroup(u, group_id, doc_ids) ==
  LET checked == group_id # NULL /\ group_id # 0
      owned   == \E g \in groups : g.id = group_id /\ g.userId = u
      fk      == group_id = NULL \/ group_id \in GroupIds(groups)
      moved   == {IF d.id \in doc_ids /\ d.userId = u THEN [d EXCEPT !.groupId = group_id] ELSE d :
                    d \in docs}
      count   == Cardinality({d \in docs : d.id \in doc_ids /\ d.userId = u})
      foreign == ForeignGroup(groups, u, group_id) \/ ForeignDocs(docs, u, doc_ids)
  IN  IF doc_ids = {} \/ (checked /\ ~owned)
      THEN Commit(Db, CallOn("assign_documents_to_group", u, "ok", 0, 200, foreign))
      ELSE IF ~fk /\ count > 0
      THEN Commit(Db, CallOn("assign_documents_to_group", u, "raised", 0, 500, foreign))
      ELSE Commit([Db EXCEPT !.docs = moved],
                  CallOn("assign_documents_to_group", u, "ok", count, 200, foreign))

\* DocumentStore.delete_group; the documents left in the group are detached
\* by the database ("groupId set to null").  DELETE /groups/{group_id} raises
\* its 404 inside the try block, where "except Exception" turns it into a 500.
DeleteGroup(u, group_id, delete_documents) ==
  LET owned == \E g \in groups : g.id = group_id /\ g.userId = u
      kept  == IF delete_documents
               THEN {d \in docs : ~(d.groupId = group_id /\ d.userId = u)}
               ELSE docs
      freed == {IF d.groupId = group_id THEN [d EXCEPT !.groupId = NULL] ELSE d : d \in kept}
      count == IF delete_documents THEN Cardinality(docs \ kept) ELSE 0
  IN  IF ~owned
      THEN Commit(Db, CallOn("delete_group", u, "none", 0, 500, ForeignGroup(groups, u, group_id)))
      ELSE Commit([Db EXCEPT !.docs = freed, !.groups = {g \in @ : g.id # group_id}],
                  [CallOn("delete_group", u, "ok", count, 200, FALSE)
                     EXCEPT !.cascade = delete_documents])

\* DocumentStore.delete_document: find_first(id, userId), then delete
DeleteDocument(u, doc_id) ==
  LET doc == {d \in docs : d.id = doc_id /\ d.userId = u}
  IN  IF doc = {}
      THEN Commit(Db, CallOn("delete_document", u, "none", 0, 404, ForeignDocs(docs, u, {doc_id})))
      ELSE Commit([Db EXCEPT !.docs = {d \in @ : d.id # doc_id}],
                  CallOn("delete_document", u, "ok", 1, 200, FALSE))

\* DocumentStore.delete_documents: delete_many(userId, id in doc_ids)
DeleteDocuments(u, doc_ids) ==
  LET gone == {d \in docs : d.userId = u /\ d.id \in doc_ids}
  IN  IF doc_ids = {} THEN Commit(Db, Call("delete_documents", u, "ok", 0, 200))
      ELSE Commit([Db EXCEPT !.docs = @ \ gone],
                  CallOn("delete_documents", u, "ok", Cardinality(gone), 200,
                         ForeignDocs(docs, u, doc_ids)))

\* DocumentStore.update_group: the ownership check, then the update inside
\* try / except Exception: return None.  The update fails on the unique
\* (userId, name) when another group of the owner has the name.
UpdateGroupResult(grps, u, group_id, name) ==
  LET existing == {g \in grps : g.id = group_id}
      owned    == \E g \in existing : g.userId = u
      taken    == \E g \in grps : g.id # group_id /\ g.userId = u /\ g.name = name
  IN  IF ~owned THEN [groups |-> grps, result |-> "none", conflict |-> FALSE]
      ELSE IF taken THEN [groups |-> grps, result |-> "none", conflict |-> TRUE]
      ELSE [groups |-> {IF g.id = group_id THEN [g EXCEPT !.name = name] ELSE g : g \in grps},
            result |-> "ok", conflict |-> FALSE]

\* PUT /groups/{group_id}: the 404 raised inside the try block is caught by
\* "except Exception" and leaves as a 500
UpdateGroupRoute(u, group_id, name) ==
  LET r == UpdateGroupResult(groups, u, group_id, name)
  IN  Commit([Db EXCEPT !.groups = r.groups],
             [CallOn("update_group", u, r.result, 0, IF r.result = "ok" THEN 200 ELSE 500,
                     ForeignGroup(groups, u, group_id)) EXCEPT !.conflict = r.conflict])

\* PUT /api/groups/{group_id}: "except HTTPException: raise" keeps the 404
ApiUpdateGroup(u, group_id, name) ==
  LET r == UpdateGroupResult(groups, u, group_id, name)
  IN  Commit([Db EXCEPT !.groups = r.groups],
             [CallOn("api_update_group", u, r.result, 0, IF r.result = "ok" THEN 200 ELSE 404,
                     ForeignGroup(groups, u, group_id)) EXCEPT !.conflict = r.conflict])

\* f"{base_name} ({counter})"
SuffixedName(base_name, counter) == base_name \o " (" \o ToString(counter) \o ")"

\* DocumentStore.generate_unique_group_name; counter 0 stands for base_name
RECURSIVE GenerateUniqueGroupName(_, _, _, _)
GenerateUniqueGroupName(grps, u, base_name, counter) ==
  LET new_name == IF counter = 0 THEN base_name ELSE SuffixedName(base_name, counter)
  IN  IF ~(\E g \in grps : g.userId = u /\ g.name = new_name) THEN new_name
      ELSE IF counter + 1 > NAME_SAFETY_LIMIT THEN ""
      ELSE GenerateUniqueGroupName(grps, u, base_name, counter + 1)

\* import_group: for doc_data in documents
RECURSIVE ImportDocuments(_, _, _, _, _, _, _)
ImportDocuments(db, u, gid, documents, use_existing_vectors, runs, i) ==
  IF i > Len(documents) THEN db
  ELSE LET doc_data == documents[i]
           e        == GetEmbedding(doc_data.content, runs[i])
           next     == IF doc_data.content = "" THEN db
                       ELSE IF use_existing_vectors /\ doc_data.hasEmbedding
                            THEN InsertDocument(db, u, doc_data.content, doc_data.embedding, gid).db
                       ELSE IF e.status # "ok" THEN db
                       ELSE InsertDocument(db, u, doc_data.content, e.vec, gid).db
       IN  ImportDocuments(next, u, gid, documents, use_existing_vectors, runs, i + 1)

\* DocumentStore.import_group
ImportGroup(u, version, base_name, documents, use_existing_vectors, runs) ==
  LET group_name == GenerateUniqueGroupName(groups, u, base_name, 0)
      group      == CreateGroupRow(Db, u, group_name)
      after      == ImportDocuments(group.db, u, group.id, documents, use_existing_vectors, runs, 1)
  IN  IF version # "1.0" \/ documents = << >> \/ group_name = "" \/ ~group.ok
      THEN Commit(Db, Call("import_group", u, "raised", 0, 0))
      ELSE Commit(after, Call("import_group", u, "ok", after.nextDocId - nextDocId, 0))

\* ---- inputs of the search calls
ThresholdSet  == {5, 10}       \* 1 - 0.8 (the default similarity) and 1 - 0.6
SimilaritySet == {20, 15}      \* current_user.similarityThreshold 0.8 and 0.6
LimitSet      == {1, 2}
OffsetSet     == 0..(MaxDocs - 1)
PageSet       == {1, 2}
GroupIdArgs   == {NULL, 1}
GroupNameArgs == {"", "g"}
TopKArgs      == {0, 1, 0 - 1}
UserTopKSet   == {0, 2}

\* ---- tables the search is run against: up to MaxDocs documents of either
\* user, ungrouped or in group 1 (a group of user 1), each with the embedding
\* of its content
DocShapes == [userId : Users, groupId : {NULL, 1}, content : Texts]

MakeDoc(id, sh) ==
  [id |-> id, userId |-> sh.userId, groupId |-> sh.groupId, content |-> sh.content,
   embedding |-> EmbedVec(sh.content)]

\* Tables are drawn up to the order of insertion: shapes in rank order.
ShapeRank(sh) ==
  (sh.userId - 1) * 4 + (IF sh.groupId = NULL THEN 0 ELSE 2) + (IF sh.content = "cat" THEN 0 ELSE 1)

Tables ==
  UNION {{{MakeDoc(i, f[i]) : i \in 1..n} :
            f \in {h \in [1..n -> DocShapes] :
                      \A i, j \in 1..n : i < j => ShapeRank(h[i]) <= ShapeRank(h[j])}} :
         n \in 0..MaxDocs}

SearchInit ==
  /\ RLInit /\ cfg = DefaultConfig
  /\ ExInit
  /\ docs \in Tables
  /\ groups = {[id |-> 1, userId |-> 1, name |-> "g"]}
  /\ nextDocId = Cardinality(docs) + 1
  /\ nextGroupId = 2
  /\ srch = IdleSearch
  /\ ret = NoCall
  /\ foc = [p \in Callers |-> IdleCaller]

\* a caller starts a search with any arguments
SearchCall ==
  /\ srch.pc = "idle"
  /\ \E u \in Users, q \in Texts, t \in ThresholdSet, l \in LimitSet, o \in OffsetSet,
        g \in GroupIdArgs, run \in GatewayRuns : Search(u, q, t, l, o, g, run)

\* a caller asks for the page after the one it just got
SearchNextPage ==
  /\ srch.pc = "done" /\ srch.scanning /\ srch.embed = "ok" /\ ~srch.raised
  /\ srch.offset + srch.limit < srch.total
  /\ \E run \in GatewayRuns :
       Search(srch.user, srch.query, srch.threshold, srch.limit,
              srch.offset + srch.limit, srch.gid, run)

\* a client requests GET /search
SearchRequest ==
  /\ srch.pc = "idle"
  /\ \E u \in Users, q \in Texts, sim \in SimilaritySet, page \in PageSet, l \in LimitSet,
        g \in GroupIdArgs \cup {0}, name \in GroupNameArgs, run \in GatewayRuns :
        SearchRoute(u, q, sim, page, l, g, name, run)

\* a client requests POST /rag
RagRequest ==
  /\ srch.pc = "idle"
  /\ \E u \in Users, q \in Texts, sim \in SimilaritySet, k \in TopKArgs, uk \in UserTopKSet,
        run \in GatewayRuns : RagQuery(u, q, sim, k, uk, run)

\* a client requests POST /v1/chat/completions
ChatRequest ==
  /\ srch.pc = "idle"
  /\ \E u \in Users, q \in Texts, sim \in SimilaritySet, k \in TopKArgs, uk \in UserTopKSet,
        name \in GroupNameArgs, run \in GatewayRuns : ChatCompletions(u, q, sim, k, uk, name, run)

SearchNext ==
  \/ SearchCall
  \/ SearchNextPage
  \/ SearchRequest
  \/ RagRequest
  \/ ChatRequest
  \/ SearchPage
  \/ SearchCount
  \/ SearchForget

SpecSearch == SearchInit /\ [][SearchNext]_vars

\* ---- find_or_create_group, one await at a time

\* a caller enters find_or_create_group(user_id, name)
FocCall(p, u, name) ==
  /\ foc[p].pc = "idle"
  /\ foc' = [foc EXCEPT ![p] = [IdleCaller EXCEPT !.pc = "find", !.user = u, !.name = name]]
  /\ UNCHANGED <<docs, groups, nextDocId, nextGroupId, srch, ret>>
  /\ UNCHANGED rlvars
  /\ UNCHANGED exvars

\* existing = await documentgroup.find_first(...); if existing: return existing.id
FocFind(p) ==
  /\ foc[p].pc = "find"
  /\ LET existing == {g \in groups : g.userId = foc[p].user /\ g.name = foc[p].name}
     IN  foc' = IF existing # {}
                THEN [foc EXCEPT ![p].pc = "done", ![p].id = (CHOOSE g \in existing : TRUE).id]
                ELSE [foc EXCEPT ![p].pc = "create"]
  /\ UNCHANGED <<docs, groups, nextDocId, nextGroupId, srch, ret>>
  /\ UNCHANGED rlvars
  /\ UNCHANGED exvars

\* group = await documentgroup.create(...); return group.id
FocCreate(p) ==
  /\ foc[p].pc = "create"
  /\ LET created == CreateGroupRow(Db, foc[p].user, foc[p].name)
     IN  /\ created.db.nextGroupId <= MaxGroups + 1
         /\ groups' = created.db.groups
         /\ nextGroupId' = created.db.nextGroupId
         /\ foc' = [foc EXCEPT ![p].pc = "done", ![p].id = created.id,
                               ![p].raised = ~created.ok]
  /\ UNCHANGED <<docs, nextDocId, srch, ret>>
  /\ UNCHANGED rlvars
  /\ UNCHANGED exvars

\* the caller has its answer
FocReturn(p) ==
  /\ foc[p].pc = "done"
  /\ foc' = [foc EXCEPT ![p] = IdleCaller]
  /\ UNCHANGED <<docs, groups, nextDocId, nextGroupId, srch, ret>>
  /\ UNCHANGED rlvars
  /\ UNCHANGED exvars

FocNext ==
  \/ \E p \in Callers, u \in Users, n \in {"g", "h"} : FocCall(p, u, n)
  \/ \E p \in Callers : FocFind(p)
  \/ \E p \in Callers : FocCreate(p)
  \/ \E p \in Callers : FocReturn(p)

\* ---- inputs of the writes
ContentSet     == {"cat"}
GroupIdInputs  == {NULL, 0} \cup (1..MaxGroups)
GroupNameSet   == {"g", "h"}
WriteRuns      == {<<"ok">>, <<"error">>}
ImportDocData  ==
  {[content |-> "cat", hasEmbedding |-> TRUE,  embedding |-> ForeignVec],
   [content |-> "cat", hasEmbedding |-> FALSE, embedding |-> << >>],
   [content |-> "",    hasEmbedding |-> FALSE, embedding |-> << >>]}
\* import requests: version, documents, use_existing_vectors, and how the
\* embedding service answers for the one document
ImportRequests ==
  {[version |-> "0.9", documents |-> <<d>>, use |-> FALSE, runs |-> <<(<<"ok">>)>>] :
     d \in {x \in ImportDocData : x.hasEmbedding}}
    \cup {[version |-> "1.0", documents |-> << >>, use |-> FALSE, runs |-> <<(<<"ok">>)>>]}
    \cup {[version |-> "1.0", documents |-> <<d>>, use |-> b, runs |-> <<(<<"ok">>)>>] :
            d \in ImportDocData, b \in BOOLEAN}
    \cup {[version |-> "1.0", documents |-> <<d>>, use |-> FALSE, runs |-> <<(<<"error">>)>>] :
            d \in {x \in ImportDocData : x.content # ""}}

StoreSpecInit ==
  /\ RLInit /\ cfg = DefaultConfig
  /\ StoreInit
  /\ ExInit

\* a write handler is called once the previous call has returned
StoreCall ==
  /\ ret = NoCall
  /\ \/ \E u \in Users, c \in ContentSet, g \in GroupIdInputs, n \in {"", "g"},
           run \in WriteRuns : AddDocumentRoute(u, c, g, n, run)
     \/ \E u \in Users, c \in ContentSet, g \in GroupIdInputs, n \in {"", "g"},
           run \in WriteRuns : UploadDocument(u, c, g, n, run)
     \/ \E u \in Users, n \in GroupNameSet : CreateGroup(u, n)
     \/ \E u \in Users, g \in GroupIdInputs, ids \in SUBSET (1..MaxStored) :
           AssignDocumentsToGroup(u, g, ids)
     \/ \E u \in Users, g \in 1..MaxGroups, del \in BOOLEAN : DeleteGroup(u, g, del)
     \/ \E u \in Users, id \in 1..MaxStored : DeleteDocument(u, id)
     \/ \E u \in Users, ids \in SUBSET (1..MaxStored) : DeleteDocuments(u, ids)
     \/ \E u \in Users, g \in 1..MaxGroups, n \in GroupNameSet : UpdateGroupRoute(u, g, n)
     \/ \E u \in Users, g \in 1..MaxGroups, n \in GroupNameSet : ApiUpdateGroup(u, g, n)
     \/ \E u \in Users, r \in ImportRequests :
           ImportGroup(u, r.version, "g", r.documents, r.use, r.runs)

\* the call returns to its caller
StoreReturn ==
  /\ ret # NoCall
  /\ ret' = NoCall
  /\ UNCHANGED <<docs, groups, nextDocId, nextGroupId, srch, foc>>
  /\ UNCHANGED rlvars
  /\ UNCHANGED exvars

StoreNext == StoreCall \/ StoreReturn

SpecStore == StoreSpecInit /\ [][StoreNext]_vars

SpecFindOrCreate == StoreSpecInit /\ [][FocNext]_vars


\* ---- specifications of the rate limiter
LimiterInit == RLInit /\ StoreInit /\ ExInit /\ cfg \in LimiterConfigs

SpecLimiter == LimiterInit /\ [][RLNext]_vars

BucketInit == RLInit /\ StoreInit /\ ExInit /\ cfg \in Configs /\ cfg.gcap = 0 /\ cfg.grate = TokenUnit /\ cfg.ucap > 0

SpecBucket == BucketInit /\ [][BucketNext]_vars

\* ================================================================ claims

AllowedCount(L) == Cardinality({i \in 1..Len(L) : L[i].allowed})

\* the entries 1..n of L were all sent with timestamp t and run at time t
Burst(L, n, t) == \A j \in 1..n : L[j].now = t /\ L[j].at = t

\* the entries m..n of L were all sent with timestamp t and run at time t
Run(L, m, n, t) == \A j \in m..n : L[j].now = t /\ L[j].at = t

\* C1: callers racing on one key never double-spend.  While no time has
\* elapsed, however the callers interleave, the script executions on the key
\* allow exactly the first C of them (the outcomes of a serial order), at
\* most C calls are allowed, and the stored tokens are the capacity minus
\* one token per allowed call.
C1_NoDoubleSpend ==
  LET L == log[BucketKey]
      C == cfg.ucap
  IN  clock = 0 =>
        /\ AllowedCount(L) <= C
        /\ \A i \in 1..Len(L) : L[i].allowed <=> i <= C
        /\ bucket[BucketKey].exists =>
             bucket[BucketKey].tokens = (C - AllowedCount(L)) * TokenUnit
        /\ \A s \in Slots :
             req[s].uRes = "denied" => Len(L) > C

\* C1 witness: the bucket is spent, a further call has been denied, and
\* another caller's script is still in flight on the same key
C1_Witness ==
  /\ clock = 0
  /\ Len(log[BucketKey]) = cfg.ucap + 1
  /\ ~log[BucketKey][cfg.ucap + 1].allowed
  /\ \E s, t \in Slots : s # t /\ pc[s] = "u_eval" /\ pc[t] = "rejected"

\* C2 as stated: from no stored state exactly C calls at one timestamp are
\* allowed and the next is denied; 1/r seconds later exactly one more call is
\* allowed and the one after it is denied, for every rate r > 0.
C2_Conservation ==
  LET L == log[BucketKey]
      C == cfg.ucap
  IN  /\ \A i \in 1..Len(L) :
           Burst(L, i, L[1].now) => (L[i].allowed <=> i <= C)
      /\ \A i \in (C + 2)..Len(L) :
           ( /\ Burst(L, C + 1, L[1].now)
             /\ Run(L, C + 2, i, L[C + 2].now)
             /\ (L[C + 2].now - L[1].now) * cfg.urate = TokenUnit )
           => (L[i].allowed <=> i = C + 2)

\* C2 amended: the same, for rates whose refill interval 1/r is shorter than
\* the bucket's idle expiry (EXPIRE 3600).
C2_ConservationWithinExpiry ==
  LET L == log[BucketKey]
      C == cfg.ucap
  IN  /\ \A i \in 1..Len(L) :
           Burst(L, i, L[1].now) => (L[i].allowed <=> i <= C)
      /\ \A i \in (C + 2)..Len(L) :
           ( /\ Burst(L, C + 1, L[1].now)
             /\ Run(L, C + 2, i, L[C + 2].now)
             /\ (L[C + 2].now - L[1].now) * cfg.urate = TokenUnit
             /\ L[C + 2].now - L[1].now < EXPIRE_SECONDS )
           => (L[i].allowed <=> i = C + 2)

\* C2 witness: C allowed and one denied at one timestamp, then 1/r seconds
\* later (within the expiry) one allowed and one denied
C2_Witness ==
  LET L == log[BucketKey]
      C == cfg.ucap
  IN  /\ Len(L) = C + 3
      /\ Burst(L, C + 1, L[1].now)
      /\ Run(L, C + 2, C + 3, L[C + 2].now)
      /\ (L[C + 2].now - L[1].now) * cfg.urate = TokenUnit
      /\ L[C + 2].now - L[1].now < EXPIRE_SECONDS
      /\ L[C].allowed /\ ~L[C + 1].allowed
      /\ L[C + 2].allowed /\ ~L[C + 3].allowed

\* C3: with both layers enabled the handler runs only after the global
\* acquire and then the per-client acquire both returned allowed; the
\* per-client acquire is made only after the global one allowed, and a
\* request the global bucket denied is rejected without its per-client
\* bucket being read or written.
C3_LayeredAdmission ==
  (cfg.gcap > 0 /\ cfg.ucap > 0) =>
    \A s \in Slots :
      /\ pc[s] = "handler" => (req[s].gRes = "allowed" /\ req[s].uRes = "allowed")
      /\ (pc[s] = "u_eval" \/ req[s].uRan \/ req[s].uRes # None)
           => req[s].gRes = "allowed"
      /\ req[s].gRes = "denied"
           => (pc[s] = "rejected" /\ ~req[s].uRan /\ req[s].uRes = None)

\* C3 witness: one request admitted through both buckets while another,
\* denied by the global bucket, is rejected
C3_Witness ==
  /\ cfg.gcap > 0 /\ cfg.ucap > 0
  /\ \E s, t \in Slots :
       /\ pc[s] = "handler" /\ req[s].gRan /\ req[s].uRan
       /\ pc[t] = "rejected" /\ req[t].gRes = "denied" /\ req[t].gRan


\* the documents search counts as eligible: of the user, of the group when one
\* is given, within the threshold of the query
Eligible(user_id, group_id, qvec, threshold) ==
  {d \in docs : /\ d.userId = user_id
                /\ group_id # NULL => d.groupId = group_id
                /\ CosineDistance(d.embedding, qvec) <= threshold}

\* the stored document a returned row was selected from
DocOf(row) == CHOOSE d \in docs : d.id = row.id

\* search has its page of rows / has returned
HasRows == srch.pc \in {"count", "done"} /\ srch.embed = "ok"
Returned == srch.pc = "done" /\ srch.embed = "ok" /\ ~srch.raised

\* C4: search(user_id = A, ...) returns only documents whose userId is A, and
\* its total counts no document of another user: it is at most the number of
\* A's documents within the threshold.
C4_TenantIsolation ==
  /\ HasRows => \A i \in 1..Len(srch.rows) : DocOf(srch.rows[i]).userId = srch.user
  /\ Returned =>
       srch.total <= Cardinality({d \in docs : /\ d.userId = srch.user
                                               /\ CosineDistance(d.embedding, srch.qvec) <= srch.threshold})

\* a search returned rows while another user's document was within the
\* threshold (and in the group searched, when one was given)
C4_Witness ==
  /\ Returned /\ Len(srch.rows) > 0
  /\ \E d \in docs : /\ d.userId # srch.user
                     /\ srch.gid # NULL => d.groupId = srch.gid
                     /\ CosineDistance(d.embedding, srch.qvec) <= srch.threshold

\* C5: every document with a non-null groupId references an existing group
\* whose userId equals the document's userId.
C5_GroupOwnership ==
  \A d \in docs : d.groupId # NULL =>
    \E g \in groups : g.id = d.groupId /\ g.userId = d.userId

\* C6: if the embedding gateway fails for the query text (raises, times out or
\* yields no vector), search returns ([], 0), raises no exception and issues
\* no query against the store.
C6_EmbeddingFailureDegrades ==
  (srch.pc = "done" /\ srch.embed # "ok") =>
    /\ ~srch.raised
    /\ srch.rows = << >> /\ srch.total = 0
    /\ srch.queries = 0

\* C7: the returned list is sorted by ascending distance, and documents with
\* equal distance appear in ascending id order.
C7_RankingOrder ==
  HasRows =>
    \A i, j \in 1..Len(srch.rows) : i < j =>
      \/ srch.rows[i].distance < srch.rows[j].distance
      \/ /\ srch.rows[i].distance = srch.rows[j].distance
         /\ srch.rows[i].id < srch.rows[j].id

\* C8: the pages at offsets 0, limit, 2*limit, ... up to the total, put
\* together, are a ranked list one call with limit >= total may return: the
\* same documents in the same order, none twice and none missing.
C8_PaginationConsistency ==
  (Returned /\ srch.scanning /\ srch.offset + srch.limit >= srch.total) =>
    LET pages == srch.acc \o Ids(srch.rows)
    IN  pages \in {Ids(s) : s \in PageResults(docs, srch.user, srch.gid, srch.qvec,
                                               srch.threshold, MaxDocs + 1, 0)}

\* C9: the total returned equals the number of documents of the user (and of
\* the group, when group_id is given) whose distance to the query is
\* <= threshold, whatever limit and offset are.
C9_ExactTotal ==
  Returned => srch.total = Cardinality(Eligible(srch.user, srch.gid, srch.qvec, srch.threshold))

\* a search returned fewer rows than its total, and one of the documents
\* counted lies exactly at the threshold
C9_Witness ==
  /\ Returned /\ Len(srch.rows) > 0 /\ srch.total > Len(srch.rows)
  /\ \E d \in Eligible(srch.user, srch.gid, srch.qvec, srch.threshold) :
       CosineDistance(d.embedding, srch.qvec) = srch.threshold

\* C10: with group_id = G, search returns and counts only documents whose
\* groupId is G; without group_id, it counts every document of the user within
\* the threshold, grouped or not, and a first page that holds the total
\* returns them all.
C10_GroupScoping ==
  /\ (HasRows /\ srch.gid # NULL) =>
       \A i \in 1..Len(srch.rows) : DocOf(srch.rows[i]).groupId = srch.gid
  /\ (Returned /\ srch.gid # NULL) =>
       srch.total <= Cardinality({d \in docs : d.groupId = srch.gid})
  /\ (Returned /\ srch.gid = NULL) =>
       LET all == {d \in docs : /\ d.userId = srch.user
                                 /\ CosineDistance(d.embedding, srch.qvec) <= srch.threshold}
       IN  /\ srch.total = Cardinality(all)
           /\ (srch.offset = 0 /\ srch.limit >= srch.total) =>
                {srch.rows[i].id : i \in 1..Len(srch.rows)} = {d.id : d \in all}

\* a search in group G returned rows while the user had a document outside G
\* within the threshold
C10_Witness ==
  /\ Returned /\ srch.gid # NULL /\ Len(srch.rows) > 0
  /\ \E d \in docs : /\ d.userId = srch.user /\ d.groupId # srch.gid
                     /\ CosineDistance(d.embedding, srch.qvec) <= srch.threshold

\* the operations that take the id of an existing document or group
OwnerOps == {"delete_document", "delete_documents", "update_group", "api_update_group",
             "delete_group", "assign_documents_to_group"}

\* the call reported not-found or zero affected rows
Rejected(call) ==
  \/ call.result = "none"
  \/ call.op \in {"delete_documents", "assign_documents_to_group"} /\ call.count = 0

\* C11: delete_document, delete_documents, update_group, delete_group and
\* assign_documents_to_group called by user A never delete or modify a
\* document or group of another user, and a call whose arguments name only
\* other users' objects reports not-found or zero affected.
C11_CrossTenantWrites ==
  [][ret'.op \in OwnerOps =>
       /\ \A d \in docs : d.userId # ret'.user => d \in docs'
       /\ \A g \in groups : g.userId # ret'.user => g \in groups'
       /\ ret'.foreign => Rejected(ret')]_vars

\* C12: whatever the interleaving of concurrent find_or_create_group calls,
\* a call that has returned did not raise, and exactly one group with its
\* (userId, name) exists, whose id the call returned.
C12_FindOrCreateSafe ==
  \A p \in Callers : foc[p].pc = "done" =>
    /\ ~foc[p].raised
    /\ \E g \in groups :
         /\ g.userId = foc[p].user /\ g.name = foc[p].name /\ g.id = foc[p].id
         /\ \A h \in groups : (h.userId = g.userId /\ h.name = g.name) => h = g

\* C13: a rename to a name another group of the same user holds is answered
\* with a conflict of its own: update_group does not return what it returns
\* for a group that is not found, the route answers neither 404 nor 500 (nor
\* success), and the group keeps its name.
C13_RenameConflictTyped ==
  [][(ret'.op \in {"update_group", "api_update_group"} /\ ret'.conflict) =>
       /\ groups' = groups
       /\ ret'.result # "none"
       /\ ret'.http \notin {200, 404, 500}]_vars

\* C14: a successful delete_group removes the group; with
\* delete_documents=True every document that was in it is gone, with
\* delete_documents=False every such document is still there with groupId
\* null and deletedDocuments is 0; documents outside the group are unchanged.
C14_CascadeOrDetach ==
  [][(ret'.op = "delete_group" /\ ret'.result = "ok") =>
       \E g \in groups :
         /\ groups' = groups \ {g}
         /\ \A d \in docs :
              IF d.groupId # g.id THEN d \in docs'
              ELSE IF ret'.cascade THEN \A e \in docs' : e.id # d.id
              ELSE [d EXCEPT !.groupId = NULL] \in docs'
         /\ \A e \in docs' : \E d \in docs : d.id = e.id
         /\ ~ret'.cascade => ret'.count = 0]_vars

\* C15: through add_document and import_group, every stored document's
\* embedding is the embedding computed from its own content, and a call
\* whose embedding generation failed writes no document.
C15_ContentEmbeddingInSync ==
  [][/\ \A d \in docs' : d.embedding = EmbedVec(d.content)
     /\ (ret'.op \in {"add_document", "upload_document"} /\ ret'.result = "raised") =>
          docs' = docs]_vars

\* C16: a search with limit <= 0 or offset < 0 never reaches the store: no
\* query is pending or has been sent for it, at any entry point.
C16_InvalidPaginationFailsFast ==
  (srch.pc # "idle" /\ (srch.limit <= 0 \/ srch.offset < 0)) =>
    /\ srch.pc \notin {"page", "count"}
    /\ srch.queries = 0

\* the global / the per-client acquire of slot s returns in this step
GlobalReturns(s) == req[s].gRes = None /\ req'[s].gRes # None
UserReturns(s)   == req[s].uRes = None /\ req'[s].uRes # None

\* C17 as stated: an acquire that got no reply from the store (no client
\* instance, or the eval call raised or timed out) returns True and leaves
\* the bucket of its key as it was.
C17_FailOpen ==
  [][\A s \in Slots :
       /\ (GlobalReturns(s) /\ (req'[s].gErr \/ ~req'[s].gRan)) =>
            /\ req'[s].gRes = "allowed"
            /\ bucket'[GlobalKey] = bucket[GlobalKey]
       /\ (UserReturns(s) /\ (req'[s].uErr \/ ~req'[s].uRan)) =>
            /\ req'[s].uRes = "allowed"
            /\ bucket'[ClientKey(req'[s].ip)] = bucket[ClientKey(req'[s].ip)]]_vars

\* C17 amended: such an acquire returns True, and it leaves the bucket of
\* its key as it was unless Redis had run the script before the call failed.
C17_FailOpenUnlessScriptRan ==
  [][\A s \in Slots :
       /\ (GlobalReturns(s) /\ (req'[s].gErr \/ ~req'[s].gRan)) =>
            /\ req'[s].gRes = "allowed"
            /\ ~req'[s].gRan => bucket'[GlobalKey] = bucket[GlobalKey]
       /\ (UserReturns(s) /\ (req'[s].uErr \/ ~req'[s].uRan)) =>
            /\ req'[s].uRes = "allowed"
            /\ ~req'[s].uRan =>
                 bucket'[ClientKey(req'[s].ip)] = bucket[ClientKey(req'[s].ip)]]_vars

\* a request is in its handler after its per-client eval call raised while
\* the bucket of its key holds less than one token
C17_Witness ==
  \E s \in Slots :
    /\ pc[s] = "handler" /\ req[s].uRes = "allowed" /\ req[s].uErr
    /\ bucket[ClientKey(req[s].ip)].exists
    /\ bucket[ClientKey(req[s].ip)].tokens < TOKENS_DEFAULT * TokenUnit

\* idle periods after which the next call finds the key still stored
IdlePeriods == {1, 2, EXPIRE_SECONDS}

\* C18: the token count stored for the key never exceeds capacity, and
\* neither does the count the refill step computes for a call made after
\* any idle period.
C18_RefillCap ==
  LET b   == bucket[BucketKey]
      cap == cfg.ucap * TokenUnit
  IN  b.exists =>
        /\ b.tokens <= cap
        /\ \A d \in IdlePeriods :
             Refill(b.tokens, b.last_refill, clock + d, cap, cfg.urate) <= cap

\* a second call on the stored key came later than the first and refilled it
C18_Witness ==
  LET L == log[BucketKey]
  IN  /\ Len(L) >= 2
      /\ L[1].now < L[2].now
      /\ L[2].at - L[1].at <= EXPIRE_SECONDS
      /\ bucket[BucketKey].exists

\* an acquire of the request in the slot has returned not allowed
Denied(r) == r.gRes = "denied" \/ r.uRes = "denied"

\* C19: a denied acquire is an immediate rejection: the step in which the
\* global or the per-client acquire returns not allowed leaves the request
\* rejected (HTTP 429); a rejected request makes no further acquire, is
\* not retried or queued, and only leaves, so its handler never runs.
C19_DeniedIsImmediateRejection ==
  [][\A s \in Slots :
       /\ (Denied(req'[s]) => pc'[s] = "rejected")
       /\ pc[s] = "rejected" =>
            (\/ pc'[s] = "rejected" /\ req'[s] = req[s]
             \/ pc'[s] = "idle" /\ bucket' = bucket /\ served' = served)]_vars

\* C19 witness: with both layers on, a request the global bucket allowed is
\* rejected because its per-client acquire returned not allowed
C19_Witness ==
  \E s \in Slots :
    /\ pc[s] = "rejected"
    /\ req[s].gRes = "allowed" /\ req[s].gRan
    /\ req[s].uRes = "denied" /\ req[s].uRan

\* the client keys' buckets
ClientKeys == {ClientKey(ip) : ip \in Clients}

\* C20: a disabled layer is skipped: with GLOBAL_RATE_LIMIT_CAPACITY <= 0
\* the global bucket is never acquired and never rejects, with
\* RATE_LIMIT_CAPACITY <= 0 no per-client bucket is acquired or rejects,
\* and with both disabled every request that enters reaches the handler.
C20_DisabledLayersSkipped ==
  [][
      /\ cfg.gcap <= 0 =>
          (/\ bucket'[GlobalKey] = bucket[GlobalKey]
           /\ ~bucket'[GlobalKey].exists
           /\ \A s \in Slots : /\ pc'[s] # "g_eval"
                               /\ req'[s].gRes = None /\ ~req'[s].gRan)
      /\ cfg.ucap <= 0 =>
          (/\ \A k \in ClientKeys : bucket'[k] = bucket[k] /\ ~bucket'[k].exists
           /\ \A s \in Slots : /\ pc'[s] # "u_eval"
                               /\ req'[s].uRes = None /\ ~req'[s].uRan)
      /\ (cfg.gcap <= 0 /\ cfg.ucap <= 0) =>
          \A s \in Slots :
            /\ pc'[s] # "rejected"
            /\ ((pc[s] = "idle" /\ pc'[s] # "idle") => pc'[s] = "handler")
  ]_vars

\* C20 witness: the store is connected, both layers are disabled, and a
\* request is in its handler while no bucket has been created
C20_Witness ==
  /\ cfg.gcap <= 0 /\ cfg.ucap <= 0
  /\ instance
  /\ served = MaxRequests
  /\ \E s \in Slots : pc[s] = "handler"
  /\ \A k \in Keys : ~bucket[k].exists

\* ================================================= client identity
\* the wrapper resolves the identity and builds the per-client key
ResolveIdentity ==
  /\ ident.pc = "start"
  /\ ident' = [ident EXCEPT !.pc = "done",
                            !.key = UserKey(KEY_PREFIX, ClientIp(ident.cf, ident.xff, ident.client))]
  /\ UNCHANGED <<credits, opening, txs, codes, job>>
  /\ UNCHANGED hbvars
  /\ UNCHANGED rlvars
  /\ UNCHANGED stvars

IdentSpecInit == RLInit /\ cfg = DefaultConfig /\ StoreInit /\ IdentInit /\ LedgerIdle /\ HbIdle

SpecIdentity == IdentSpecInit /\ [][ResolveIdentity]_vars

\* e is the text of v before its first comma (all of v when it has none)
IsFirstEntry(e, v) ==
  /\ Len(e) <= Len(v)
  /\ SubSeq(v, 1, Len(e)) = e
  /\ \A i \in 1..Len(e) : e[i] # ","
  /\ Len(e) = Len(v) \/ v[Len(e) + 1] = ","

\* t is e without the blanks at its two ends
IsTrimOf(t, e) ==
  /\ \E a, b \in 0..Len(e) :
       /\ a + Len(t) + b = Len(e)
       /\ \A i \in 1..a : e[i] = " "
       /\ \A i \in 1..Len(t) : e[a + i] = t[i]
       /\ \A i \in 1..b : e[a + Len(t) + i] = " "
  /\ t # << >> => (t[1] # " " /\ t[Len(t)] # " ")

\* the first entry of the forwarded-for chain, trimmed
Pieces(v) == {SubSeq(v, a, b) : a \in 1..(Len(v) + 1), b \in 0..Len(v)}

ForwardedHops(v) ==
  {t \in Pieces(v) : \E e \in Pieces(v) : IsFirstEntry(e, v) /\ IsTrimOf(t, e)}

\* C21: the per-client key is "<key_prefix>:<identity>", the identity being
\* the CF-Connecting-IP value when present and non-empty, else the trimmed
\* first comma-separated entry of X-Forwarded-For when non-empty, else the
\* peer host, else "unknown".
C21_IdentityResolution ==
  ident.pc = "done" =>
    \E id \in Strings \cup {PeerHost, Unknown} :
      /\ ident.key = KEY_PREFIX \o <<":">> \o id
      /\ IF ident.cf.present /\ ident.cf.value # << >>
         THEN id = ident.cf.value
         ELSE IF ident.xff.present /\ ForwardedHops(ident.xff.value) # {<< >>}
         THEN id \in ForwardedHops(ident.xff.value)
         ELSE IF ident.client.present THEN id = ident.client.host
         ELSE id = Unknown

\* C21 witness: no edge header, a forwarded-for chain of two hops with a
\* blank before the first, and the key built from that hop
C21_Witness ==
  /\ ident.pc = "done"
  /\ ~ident.cf.present
  /\ ident.xff = Header(<<" ", "1", ",">>)
  /\ ident.key = <<"p", ":", "1">>

\* ================================================= credits and redemption
Abs(a) == IF a < 0 THEN 0 - a ELSE a

\* the amount add_credits is called with by each entry point
\* (deduct_credits: -abs(amount), grant_bonus: abs(amount))
CallAmount(op, amount) ==
  IF op = "deduct_credits" THEN 0 - Abs(amount)
  ELSE IF op = "grant_bonus" THEN Abs(amount)
  ELSE amount

\* transaction types of the entry points
TransactionType(op) ==
  IF op = "deduct_credits" THEN "CONSUMPTION"
  ELSE IF op = "grant_bonus" THEN "BONUS"
  ELSE IF op = "admin_adjust_credits" THEN "ADJUSTMENT"
  ELSE "RECHARGE"

\* the negative-balance check is missing
Insufficient_Never(balance_after) == FALSE

\* if balance_after < 0: raise ValueError("Insufficient credits")
Insufficient(balance_after) == balance_after < 0

Raise(j, err) == [j EXCEPT !.pc = "raised", !.err = err]

ledgerFrame == UNCHANGED ident /\ UNCHANGED hbvars /\ UNCHANGED rlvars /\ UNCHANGED stvars

\* add_credits / deduct_credits / admin_adjust_credits / grant_bonus is called
AddCreditsCall(p, op, u, amount) ==
  /\ job[p].pc = "idle"
  /\ job' = [job EXCEPT ![p] = [IdleJob EXCEPT !.pc = "a_find", !.op = op, !.user = u,
                                               !.amount = CallAmount(op, amount)]]
  /\ UNCHANGED <<credits, opening, txs, codes>>
  /\ ledgerFrame

\* lines 109-118: user = find_unique(...); balance_after = balance_before + amount
AddCreditsFind(p) ==
  /\ job[p].pc = "a_find"
  /\ LET j == job[p]
     IN  job' = [job EXCEPT ![p] =
                   IF j.user \notin LedgerUsers THEN Raise(j, "User not found")
                   ELSE IF Insufficient(credits[j.user] + j.amount)
                        THEN Raise(j, "Insufficient credits")
                   ELSE [j EXCEPT !.pc = "a_create", !.before = credits[j.user]]]
  /\ UNCHANGED <<credits, opening, txs, codes>>
  /\ ledgerFrame

\* line 138: transaction.create(...); the row's id is written as the process
TransactionRow(p, j) ==
  [id |-> p, userId |-> j.user, type |-> TransactionType(j.op), amount |-> j.amount,
   balanceBefore |-> j.before, balanceAfter |-> j.before + j.amount,
   referenceId |-> j.code]

AddCreditsCreate(p) ==
  /\ job[p].pc = "a_create"
  /\ txs' = txs \cup {TransactionRow(p, job[p])}
  /\ job' = [job EXCEPT ![p].pc = "a_update"]
  /\ UNCHANGED <<credits, opening, codes>>
  /\ ledgerFrame

\* lines 141-146: user.update(data={"credits": balance_after}); return
AddCreditsUpdate(p) ==
  /\ job[p].pc = "a_update"
  /\ credits' = [credits EXCEPT ![job[p].user] = job[p].before + job[p].amount]
  /\ job' = [job EXCEPT ![p].pc = "done"]
  /\ UNCHANGED <<opening, txs, codes>>
  /\ ledgerFrame

\* a database call of add_credits raises (connection lost, timeout)
AddCreditsDbError(p) ==
  /\ job[p].pc \in {"a_find", "a_create", "a_update"}
  /\ job' = [job EXCEPT ![p] = Raise(job[p], "database error")]
  /\ UNCHANGED <<credits, opening, txs, codes>>
  /\ ledgerFrame

\* the update marks the code whatever its status
MarkUsed_Unconditional(row, user_id) ==
  [updated |-> TRUE, row |-> [row EXCEPT !.status = USED, !.usedBy = user_id]]

\* lines 120-130: update(where={"id": id, "status": ACTIVE}, data={"status": USED, ...})
\* one UPDATE statement; no row matches when the status is no longer ACTIVE
MarkUsed(row, user_id) ==
  IF row.status = ACTIVE
  THEN [updated |-> TRUE, row |-> [row EXCEPT !.status = USED, !.usedBy = user_id]]
  ELSE [updated |-> FALSE, row |-> row]

\* redeem_code(code, user_id) is called
RedeemCall(p, u, c) ==
  /\ job[p].pc = "idle"
  /\ job' = [job EXCEPT ![p] = [IdleJob EXCEPT !.pc = "r_fetch", !.op = "redeem_code",
                                               !.user = u, !.code = c]]
  /\ UNCHANGED <<credits, opening, txs, codes>>
  /\ ledgerFrame

\* lines 92-103: fetch and validate; the amount is the one read here
RedeemFetch(p) ==
  /\ job[p].pc = "r_fetch"
  /\ LET j == job[p]
     IN  job' = [job EXCEPT ![p] =
                   IF j.code \notin CodeIds THEN Raise(j, "Invalid redemption code")
                   ELSE IF codes[j.code].status # ACTIVE THEN Raise(j, "Code is not active")
                   ELSE IF codes[j.code].expiresAt # 0 - 1 /\ codes[j.code].expiresAt < clock
                        THEN [j EXCEPT !.pc = "r_expire"]
                   ELSE [j EXCEPT !.pc = "r_mark", !.amount = codes[j.code].amount]]
  /\ UNCHANGED <<credits, opening, txs, codes>>
  /\ ledgerFrame

\* lines 105-109: update(where={"id": id}, data={"status": EXPIRED}); raise
RedeemExpire(p) ==
  /\ job[p].pc = "r_expire"
  /\ codes' = [codes EXCEPT ![job[p].code].status = EXPIRED]
  /\ job' = [job EXCEPT ![p] = Raise(job[p], "Code has expired")]
  /\ UNCHANGED <<credits, opening, txs>>
  /\ ledgerFrame

\* lines 118-148: mark the code USED, then add_credits(user_id, redemption.amount)
RedeemMark(p) ==
  /\ job[p].pc = "r_mark"
  /\ LET j   == job[p]
         out == MarkUsed(codes[j.code], j.user)
     IN  /\ codes' = [codes EXCEPT ![j.code] = out.row]
         /\ job' = [job EXCEPT ![p] =
                      IF out.updated THEN [j EXCEPT !.pc = "a_find"]
                      ELSE Raise(j, "Code redemption failed or already used")]
  /\ UNCHANGED <<credits, opening, txs>>
  /\ ledgerFrame

\* datetime.utcnow() moves on
LedgerAdvance == \E d \in Delays : Advance(d)

LedgerSteps ==
  \/ \E p \in Procs : AddCreditsFind(p)
  \/ \E p \in Procs : AddCreditsCreate(p)
  \/ \E p \in Procs : AddCreditsUpdate(p)
  \/ \E p \in Procs : AddCreditsDbError(p)

\* concurrent redeem_code calls on the one code
RedeemInit ==
  /\ RLInit /\ cfg = DefaultConfig /\ StoreInit /\ ident = IdleIdent /\ HbIdle
  /\ credits \in [LedgerUsers -> BalanceSet]
  /\ opening = credits
  /\ txs = {}
  /\ codes \in [CodeIds -> CodeRows]
  /\ job = [p \in Procs |-> IdleJob]

RedeemNext ==
  \/ \E p \in Procs, u \in LedgerUsers, c \in CodeIds \cup {0} : RedeemCall(p, u, c)
  \/ \E p \in Procs : RedeemFetch(p)
  \/ \E p \in Procs : RedeemExpire(p)
  \/ \E p \in Procs : RedeemMark(p)
  \/ LedgerSteps
  \/ LedgerAdvance

SpecRedeem == RedeemInit /\ [][RedeemNext]_vars

\* concurrent credits calls
CreditOps == {"add_credits", "deduct_credits", "admin_adjust_credits", "grant_bonus"}

LedgerInit ==
  /\ RLInit /\ cfg = DefaultConfig /\ StoreInit /\ ident = IdleIdent /\ HbIdle
  /\ credits \in [LedgerUsers -> BalanceSet]
  /\ credits[2] = 0
  /\ opening = credits
  /\ txs = {}
  /\ codes = [c \in CodeIds |-> NewCode(5, 0 - 1)]
  /\ job = [p \in Procs |-> IdleJob]

\* the processes are interchangeable: a call is run by the first idle one
FirstIdle(p) == job[p].pc = "idle" /\ \A q \in Procs : q < p => job[q].pc # "idle"

\* user 0 has no row: every entry point then raises at the same line, so the
\* missing user is called through add_credits only
LedgerNext ==
  \/ \E p \in Procs, op \in CreditOps, u \in LedgerUsers, a \in AmountSet :
        FirstIdle(p) /\ AddCreditsCall(p, op, u, a)
  \/ \E p \in Procs, a \in AmountSet :
        FirstIdle(p) /\ AddCreditsCall(p, "add_credits", 0, a)
  \/ LedgerSteps

SpecLedger == LedgerInit /\ [][LedgerNext]_vars

\* the processes whose redeem_code call returned
Redeemed == {p \in Procs : job[p].op = "redeem_code" /\ job[p].pc = "done"}

\* credits granted since the start, over all users
Granted == (credits[1] - opening[1]) + (credits[2] - opening[2])

\* C22: a code is credited at most once: of the concurrent redeem_code calls
\* on the code at most one returns, at most one transaction is recorded for
\* it, and the credits granted are its amount when a call returned and
\* never more.
C22_RedeemedAtMostOnce ==
  /\ Cardinality(Redeemed) <= 1
  /\ Cardinality({t \in txs : t.referenceId = 1}) <= 1
  /\ Granted \in {0, codes[1].amount}
  /\ Redeemed # {} => Granted = codes[1].amount

\* C22 witness: two calls raced on the code; one returned with the credits
\* granted, the other found the code no longer ACTIVE at its update
C22_Witness ==
  \E p, q \in Procs :
    /\ job[p].op = "redeem_code" /\ job[p].pc = "done"
    /\ job[q].pc = "raised" /\ job[q].err = "Code redemption failed or already used"
    /\ job[q].user # job[p].user
    /\ Granted = codes[1].amount

\* every call has returned or raised
AllFinished == \A p \in Procs : job[p].pc \in {"idle", "done", "raised"}

\* the sum of the amounts of the transactions of rows 1..n recorded for user u
RECURSIVE AmountsUpTo(_, _)
AmountsUpTo(n, u) ==
  IF n = 0 THEN 0
  ELSE AmountsUpTo(n - 1, u) +
       (IF \E t \in txs : t.id = n /\ t.userId = u
        THEN (CHOOSE t \in txs : t.id = n /\ t.userId = u).amount ELSE 0)

\* C27: once all calls have finished, each user's credits are the initial
\* balance plus the sum of the amounts of the transactions recorded for
\* the user.
C27_NoLostUpdates ==
  AllFinished =>
    \A u \in LedgerUsers : credits[u] = opening[u] + AmountsUpTo(MaxProcs, u)

\* C28: no balance is ever negative; a call whose amount would bring the
\* balance it reads below zero raises "Insufficient credits" in a step that
\* changes neither the balances nor the transactions, and records no
\* transaction afterwards; every call that passes the check writes a
\* balance that is not negative.
C28_NeverNegative ==
  [][
      /\ \A u \in LedgerUsers : credits[u] >= 0 /\ credits'[u] >= 0
      /\ \A t \in txs' : t.balanceAfter >= 0
      /\ \A p \in Procs :
            /\ (job[p].pc = "a_find" /\ job'[p].pc = "a_create") =>
                  credits[job[p].user] + job[p].amount >= 0
            /\ (job[p].pc = "a_find" /\ job'[p].pc = "raised"
                   /\ job'[p].err # "database error"
                   /\ job[p].user \in LedgerUsers) =>
                  (/\ credits[job[p].user] + job[p].amount < 0
                   /\ job'[p].err = "Insufficient credits"
                   /\ credits' = credits
                   /\ txs' = txs)
            /\ (job[p].err = "Insufficient credits") =>
                  (job'[p] = job[p] /\ ~(\E t \in txs' : t.id = p))
  ]_vars

\* C28 witness: a deduction emptied the balance and the next deduction for
\* the same user raised "Insufficient credits", the balance still 0
C28_Witness ==
  \E p, q \in Procs :
    /\ job[p].pc = "done" /\ job[p].op = "deduct_credits"
    /\ job[q].pc = "raised" /\ job[q].err = "Insufficient credits"
    /\ job[q].op = "deduct_credits" /\ job[q].user = job[p].user
    /\ opening[job[p].user] = 5
    /\ credits[job[p].user] = 0
    /\ Cardinality(txs) = 1

\* C29: once every redeem_code call has finished, the code is USED if and
\* only if the credits of the user it is marked with were increased by the
\* code's amount.
C29_AllOrNothing ==
  AllFinished =>
    \A c \in CodeIds :
      /\ codes[c].status = USED =>
            credits[codes[c].usedBy] = opening[codes[c].usedBy] + codes[c].amount
      /\ codes[c].status # USED => credits = opening

\* ================================================= search under concurrent writes
\* another request deletes a document between the two queries of the search
ConcurrentDelete ==
  /\ srch.pc = "count"
  /\ \E d \in docs : DeleteDocument(d.userId, d.id)

\* another request adds a document between the two queries of the search
ConcurrentAdd ==
  /\ srch.pc = "count"
  /\ \E u \in Users, c \in Texts, g \in GroupIdArgs : AddDocumentRoute(u, c, g, "", <<"ok">>)

SearchRaceNext == SearchNext \/ ConcurrentDelete \/ ConcurrentAdd

SpecSearchRace == SearchInit /\ [][SearchRaceNext]_vars

\* C23: results and total of one call describe the same set of documents,
\* also when documents are inserted or deleted while the call runs: for
\* offset 0 the number of results is min(limit, total).
C23_PageMatchesTotal ==
  (Returned /\ srch.offset = 0) => Len(srch.rows) = Min(srch.limit, srch.total)

\* ================================================= one request at a time
\* the wrapper with both layers on, requests served one after the other
SeqInit ==
  /\ RLInit /\ StoreInit /\ ExInit
  /\ cfg \in Configs /\ cfg.grate = TokenUnit /\ cfg.urate = TokenUnit
  /\ cfg.gcap > 0 /\ cfg.ucap > 0

SeqNext ==
  \/ \E ok \in BOOLEAN : Startup(ok)
  \/ \E d \in Delays : Advance(d)
  \/ \E ip \in Clients, h \in HandlerHasRequest : EnterStep(1, ip, h, MaxCalls)
  \/ GlobalEval(1)
  \/ \E ran \in BOOLEAN : GlobalEvalRaises(1, ran)
  \/ UserEval(1)
  \/ \E ran \in BOOLEAN : UserEvalRaises(1, ran)
  \/ Leave(1)

SpecLimiterSeq == SeqInit /\ [][SeqNext]_vars

\* C24: a request the global bucket allowed and the per-client bucket then
\* denied has consumed no global token: when it is rejected the global
\* bucket holds the count its global acquire found (refilled up to the
\* request's time).  Requests run one at a time, so no other request
\* touches the global bucket in between.
C24_RejectedKeepsGlobalToken ==
  (/\ pc[1] = "rejected"
   /\ req[1].gRes = "allowed" /\ req[1].gRan /\ ~req[1].gErr
   /\ req[1].uRes = "denied")
    => bucket[GlobalKey].tokens = req[1].gSeen

\* ================================================= instances with skewed clocks
\* how far an instance's time.time() is ahead of the store's clock, seconds
SkewSet == {0, 1}

AcquireSkewed(s, skew) == EnterAt(s, "ip1", TRUE, MaxCalls, clock + skew)

SkewNext ==
  \/ \E ok \in BOOLEAN : Startup(ok)
  \/ \E d \in Delays : Advance(d)
  \/ \E s \in Slots, skew \in SkewSet : AcquireSkewed(s, skew)
  \/ \E s \in Slots : AcquireEval(s)
  \/ \E s \in Slots, ran \in BOOLEAN : AcquireEvalRaises(s, ran)
  \/ \E s \in Slots : Leave(s)

SpecSkew == BucketInit /\ [][SkewNext]_vars

\* the timestamps the calls in L passed
Stamps(L) == {L[i].now : i \in 1..Len(L)}

\* C25: whatever timestamps the callers pass, also ones that go backwards,
\* the number of allowed single-token calls on the key is at most
\* C + r * (largest timestamp - smallest timestamp).
C25_RateBoundUnderSkew ==
  LET L  == log[BucketKey]
      hi == CHOOSE t \in Stamps(L) : \A u \in Stamps(L) : t >= u
      lo == CHOOSE t \in Stamps(L) : \A u \in Stamps(L) : t <= u
  IN  Len(L) > 0 =>
        AllowedCount(L) * TokenUnit <= cfg.ucap * TokenUnit + cfg.urate * (hi - lo)

\* ================================================= eviction
\* the allow/deny results of the calls in L, had the key never been evicted:
\* the script run on a store whose clock stands still
RECURSIVE NeverEvicted(_, _, _, _, _)
NeverEvicted(L, i, b, capacity, rate) ==
  IF i > Len(L) THEN << >>
  ELSE LET out == TokenBucketScript(b, capacity, rate, L[i].now,
                                    TOKENS_DEFAULT * TokenUnit, 0)
       IN  <<out.allowed>> \o NeverEvicted(L, i + 1, out.bucket, capacity, rate)

Results(L) == [i \in 1..Len(L) |-> L[i].allowed]

\* C26 as stated: for every capacity, rate and sequence of calls the results
\* are those of the bucket had it never been evicted.
C26_EvictionUnobservable ==
  Results(log[BucketKey]) =
    NeverEvicted(log[BucketKey], 1, NoBucket, cfg.ucap * TokenUnit, cfg.urate)

\* every call reached the store at the time it passed as its timestamp
Prompt(L) == \A i \in 1..Len(L) : L[i].now = L[i].at

\* C26 amended: the same, for rates that refill the whole capacity within
\* the 3600 seconds of the key's lifetime and calls whose timestamp is the
\* time they reach the store.
C26_EvictionUnobservableWhenRefilled ==
  (cfg.urate * EXPIRE_SECONDS >= cfg.ucap * TokenUnit /\ Prompt(log[BucketKey])) =>
    Results(log[BucketKey]) =
      NeverEvicted(log[BucketKey], 1, NoBucket, cfg.ucap * TokenUnit, cfg.urate)

\* C26 witness: a bucket emptied by its calls was evicted, and the call
\* after the eviction was allowed as it would have been without it
C26_Witness ==
  LET L == log[BucketKey]
  IN  /\ cfg.urate * EXPIRE_SECONDS >= cfg.ucap * TokenUnit
      /\ Prompt(L)
      /\ Len(L) >= cfg.ucap + 2
      /\ ~L[cfg.ucap + 1].allowed
      /\ L[cfg.ucap + 2].at - L[cfg.ucap + 1].at > EXPIRE_SECONDS
      /\ L[cfg.ucap + 2].allowed

\* ================================================= instance heartbeat
\* member = f"{cls._hostname}:{cls._instance_id}"
Member(hostname, instance_id) == hostname \o <<":">> \o instance_id

\* ZADD key score member: the member's score is replaced
ZADD(zset, member, score) ==
  {e \in zset : e.member # member} \cup {[member |-> member, score |-> score]}

\* ZREMRANGEBYSCORE key min max
ZREMRANGEBYSCORE(zset, min, max) ==
  {e \in zset : ~(min <= e.score /\ e.score <= max)}

\* ZRANGEBYSCORE key min +inf
ZRANGEBYSCORE(zset, min) == {e.member : e \in {x \in zset : x.score >= min}}

\* ZREM key member
ZREM(zset, member) == {e \in zset : e.member # member}

\* line 107: zrem("active_instances", cls._instance_id)
DisconnectMember(hostname, instance_id) == instance_id

hbFrame ==
  /\ UNCHANGED <<cfg, booted, instance, bucket, pc, req, served, log>>
  /\ UNCHANGED stvars
  /\ UNCHANGED <<ident, credits, opening, txs, codes, job>>

\* connect(): the connection is made and the heartbeat task created
HbConnect(n) ==
  /\ node[n].pc = "down"
  /\ node' = [node EXCEPT ![n].pc = "zadd"]
  /\ UNCHANGED <<clock, advances, active_instances>>
  /\ hbFrame

\* _run_heartbeat: zadd("active_instances", {member: time.time()})
HbZadd(n) ==
  /\ node[n].pc = "zadd"
  /\ active_instances' = ZADD(active_instances, Member(Hostname, InstanceId(n)), clock)
  /\ node' = [node EXCEPT ![n].pc = "trim", ![n].beats = 1]
  /\ UNCHANGED <<clock, advances>>
  /\ hbFrame

\* _run_heartbeat: zremrangebyscore("active_instances", 0, time.time() - 15),
\* then asyncio.sleep(5)
HbTrim(n) ==
  /\ node[n].pc = "trim"
  /\ active_instances' = ZREMRANGEBYSCORE(active_instances, 0, clock - STALE_SECONDS)
  /\ node' = [node EXCEPT ![n].pc = "sleep", ![n].wake = clock + HEARTBEAT_SLEEP]
  /\ UNCHANGED <<clock, advances>>
  /\ hbFrame

\* asyncio.sleep(5) returns
HbWake(n) ==
  /\ node[n].pc = "sleep"
  /\ clock >= node[n].wake
  /\ node' = [node EXCEPT ![n].pc = "zadd"]
  /\ UNCHANGED <<clock, advances, active_instances>>
  /\ hbFrame

\* disconnect(): cancel the heartbeat task, zrem, close
HbDisconnect(n) ==
  /\ node[n].pc \in {"zadd", "trim", "sleep"}
  /\ active_instances' = ZREM(active_instances, DisconnectMember(Hostname, InstanceId(n)))
  /\ node' = [node EXCEPT ![n].pc = "closed"]
  /\ UNCHANGED <<clock, advances>>
  /\ hbFrame

\* get_active_instances() on a connected instance
GetActiveInstances(n) ==
  /\ node[n].pc \in {"zadd", "trim", "sleep"}
  /\ node' = [node EXCEPT ![n].listed = ZRANGEBYSCORE(active_instances, clock - STALE_SECONDS)]
  /\ UNCHANGED <<clock, advances, active_instances>>
  /\ hbFrame

\* time.time() moves on
HbTick(d) ==
  /\ advances < MaxTicks
  /\ clock' = clock + d
  /\ advances' = advances + 1
  /\ UNCHANGED <<active_instances, node>>
  /\ hbFrame

HbInit ==
  /\ RLInit /\ cfg = DefaultConfig /\ StoreInit /\ ident = IdleIdent /\ LedgerIdle
  /\ HbIdle

HbNext ==
  \/ \E n \in Nodes : HbConnect(n)
  \/ \E n \in Nodes : HbZadd(n)
  \/ \E n \in Nodes : HbTrim(n)
  \/ \E n \in Nodes : HbWake(n)
  \/ \E n \in Nodes : HbDisconnect(n)
  \/ \E n \in Nodes : GetActiveInstances(n)
  \/ \E d \in {HEARTBEAT_SLEEP, STALE_SECONDS + 1} : HbTick(d)

SpecHeartbeat == HbInit /\ [][HbNext]_vars

\* the instance has disconnected after at least one heartbeat
Deregistered(n) == node[n].pc = "closed" /\ node[n].beats >= 1

\* C30: after disconnect() of an instance that had sent a heartbeat, its
\* member is not in active_instances, and a get_active_instances call on
\* another instance does not list it.
C30_DeregisteredAtOnce ==
  [][
      \A n \in Nodes :
        Deregistered(n)' =>
          /\ ~(\E e \in active_instances' : e.member = Member(Hostname, InstanceId(n)))
          /\ \A m \in Nodes \ {n} :
                (Deregistered(n) /\ node'[m].listed # node[m].listed) =>
                  Member(Hostname, InstanceId(n)) \notin node'[m].listed
  ]_vars

====
